---- MODULE Spec2Model ----
(***************************************************************************)
(* A model of the constrained NL2SQL pipeline: the SQL Guard               *)
(* (sql_guard.py), the validation engine (validation_engine.py,            *)
(* ast_validator.py), the Planner's retry protocol (llm_planner.py) and    *)
(* the main flow that calls them (run_nl2sql_clean.py: do_ask).            *)
(*                                                                         *)
(* SQL text is modelled by the syntax tree sqlglot builds from it, with    *)
(* the surface details the Guard's regular expressions depend on kept on   *)
(* the leaves: an identifier carries its spelling (lower-case name, whether *)
(* it was written in upper case, whether it is back-quoted), a LIMIT its   *)
(* written form, an INTERVAL literal whether its number is quoted.         *)
(***************************************************************************)
EXTENDS Integers, Sequences, FiniteSets, TLC

VARIABLES
    sql,      \* the SQL text handed to validate_and_rewrite
    params,   \* the other arguments of validate_and_rewrite and the environment
    out,      \* result of validate_and_rewrite(sql)
    out2,     \* result of validate_and_rewrite on the first call's output
    gpc,      \* position of the Guard's caller: "ready", "once", "twice"
    candidates, \* the generator's candidates, in the generator's order
    plan,     \* the PlanV1 handed to validate_and_select_best
    contract, \* the SafetyContract handed to validate_and_select_best
    ast_error, \* whether comprehensive_ast_validation raises for a statement
              \* that parses
    anonParses, \* whether sqlglot accepts the text of a condition it wrote
              \* for an exp.Anonymous, or that was pasted into the string
    valid,    \* result of simple_candidate_filter
    best,     \* result of validate_and_select_best: <<>> for None, else <<c>>
    vpc,      \* position of the validation engine's caller: "ready", "done"
    schema_clip,    \* llm_plan: the schema text it is given: whether it is valid
                    \* JSON, and the table names it holds
    semantic_tables, \* llm_plan: the recalled table names it is given
    planner_replies, \* the replies the Planner LLM can give
    planner_tables, \* llm_plan: its allowed_tables
    raw_response,       \* llm_plan: the Planner LLM's first reply
    raw_response_retry, \* llm_plan: its reply to the retry
    lplan,    \* llm_plan: the local `plan`, at "done" the returned PlanV1
    requests, \* number of requests sent to the Planner LLM
    lpc,      \* position of llm_plan: "start", "chat1", "chat2", "done"
    apc,      \* position of do_ask
    gen_response, \* do_ask: the Generator LLM's reply
    sql_result,   \* do_ask_traditional: what call_xiyan gave
    results,  \* the records do_ask returns (and writes to the output file)
    traditional_calls, \* number of calls of do_ask_traditional
    guarded,  \* the SQL texts validate_and_rewrite has returned in this request
    sel_tables, \* auto_select_tables: the tables of m_schema with their scores
    sel_topk, \* auto_select_tables: its argument topk
    sel_result, \* auto_select_tables: the pair it returns
    spc       \* position of the caller of auto_select_tables

guardVars == <<sql, params, out, out2, gpc>>
validationVars == <<candidates, plan, contract, ast_error, anonParses, valid, best, vpc>>
plannerVars ==
    <<schema_clip, semantic_tables, planner_replies, planner_tables,
      raw_response, raw_response_retry, lplan, requests, lpc>>
askVars == <<apc, gen_response, sql_result, results, traditional_calls, guarded>>
selectVars == <<sel_tables, sel_topk, sel_result, spc>>
vars == <<sql, params, out, out2, gpc,
          candidates, plan, contract, ast_error, anonParses, valid, best, vpc,
          schema_clip, semantic_tables, planner_replies, planner_tables,
          raw_response, raw_response_retry, lplan, requests, lpc,
          apc, gen_response, sql_result, results, traditional_calls, guarded,
          sel_tables, sel_topk, sel_result, spc>>

(***************************************************************************)
(* Identifiers and their spelling                                          *)
(***************************************************************************)
Id(n) == [name |-> n, quoted |-> FALSE, upper |-> FALSE]
IdU(n) == [name |-> n, quoted |-> FALSE, upper |-> TRUE]
IdQ(n) == [name |-> n, quoted |-> TRUE, upper |-> FALSE]

\* sql_guard._normalize: back-quotes removed, lower-cased
_normalize(id) == id.name

RESERVED_LIKE == {"check", "desc", "key", "user"}
DEFAULT_DERIVED_ALIASES == {"d", "date", "cnt", "count", "total", "num", "dt", "day"}
DEFAULT_MAX_LIMIT == 200

\* SQL_PERMITTED_ALIASES: the comma-separated names, stripped and lower-cased
_get_permitted_aliases(env_val) ==
    DEFAULT_DERIVED_ALIASES \cup {_normalize(s) : s \in env_val}

(***************************************************************************)
(* Queries                                                                 *)
(***************************************************************************)
NoLimit == [has |-> FALSE, form |-> "count", off |-> 0, cnt |-> 0]
LimitCount(n) == [has |-> TRUE, form |-> "count", off |-> 0, cnt |-> n]
\* LIMIT off, cnt
LimitComma(o, n) == [has |-> TRUE, form |-> "comma", off |-> o, cnt |-> n]
\* LIMIT cnt OFFSET off
LimitOffset(n, o) == [has |-> TRUE, form |-> "offset", off |-> o, cnt |-> n]

\* One SELECT.  star: "no" | "first" (SELECT * ...) | "distinct" (SELECT
\* DISTINCT * ...); agg: the projection calls COUNT/SUM/AVG/MIN/MAX; lit: a
\* string literal of the WHERE clause ("none" when there is none); interval:
\* an INTERVAL literal, "quoted" (INTERVAL '7' DAY) or "bare" (INTERVAL 7 DAY).
\* cols: the columns of the projection; where: the conjuncts of the WHERE
\* condition (none: no WHERE), of which the first wgroup stand together in
\* one pair of parentheses; join: the ON conditions of the JOINs.
Sel(star, tables, cols, aliases, agg, group, order, limit, interval, lit) ==
    [star |-> star, tables |-> tables, cols |-> cols, aliases |-> aliases,
     agg |-> agg, group |-> group, order |-> order, limit |-> limit,
     interval |-> interval, lit |-> lit,
     where |-> <<>>, wgroup |-> 0, join |-> <<>>]

NoSel == Sel("no", {}, {}, {}, FALSE, FALSE, FALSE, NoLimit, "none", "none")

\* A statement.  shape: "select" (one SELECT), "sub" (outer SELECT with the
\* SELECT inner nested in its FROM or WHERE), "union" (outer UNION inner, with
\* uorder / ulimit the ORDER BY / LIMIT that follow the whole UNION).
\* junk: what else the text holds: "none", "comment", "cjk_comment" (CJK text
\* inside a comment), "semi" (trailing semicolon), "cjk", "specific" (a
\* specific_xxx placeholder), "unparsable", "nonselect" (e.g. DELETE).
Qry(shape, outer, inner, uorder, ulimit, junk) ==
    [shape |-> shape, outer |-> outer, inner |-> inner,
     uorder |-> uorder, ulimit |-> ulimit, junk |-> junk]

NoQuery == Qry("select", NoSel, NoSel, FALSE, NoLimit, "none")

\* expr.find_all(exp.Select)
Selects(q) == IF q.shape = "select" THEN {q.outer} ELSE {q.outer, q.inner}

MapSelects(q, F(_)) ==
    [q EXCEPT !.outer = F(q.outer),
              !.inner = IF q.shape = "select" THEN q.inner ELSE F(q.inner)]

Min(a, b) == IF a < b THEN a ELSE b

(***************************************************************************)
(* sql_guard.py: collection of names                                       *)
(***************************************************************************)
\* Variant: the tables of the outer SELECT only.
_collect_table_names_outer(q) ==
    {_normalize(t) : t \in q.outer.tables} \ {""}

\* find_all(exp.Table) over the whole statement, normalised
_collect_table_names(q) ==
    {_normalize(t) : t \in UNION {s.tables : s \in Selects(q)}} \ {""}

\* the spelling of a column a condition names
AtomId(c) ==
    [name |-> IF c = "X" THEN "x" ELSE IF c = "Y" THEN "y" ELSE IF c = "ID" THEN "id" ELSE c,
     quoted |-> FALSE, upper |-> c \in {"X", "Y", "ID"}]

\* the exp.Column nodes of one SELECT: projection, WHERE and ON conditions
ColumnIds(s) ==
    s.cols
    \cup {AtomId(s.where[i].col) : i \in {k \in 1..Len(s.where) : s.where[k].kind \notin {"anon", "raw"}}}
    \cup UNION {{AtomId(s.join[i].lc), AtomId(s.join[i].rc)} : i \in 1..Len(s.join)}

\* find_all(exp.Column) whose `this` is an Identifier (a star is not)
_collect_column_names(q) ==
    {_normalize(c) : c \in UNION {ColumnIds(s) : s \in Selects(q)}}

\* the AS aliases of every SELECT's projection
_collect_select_aliases(q) ==
    {_normalize(a) : a \in UNION {s.aliases : s \in Selects(q)}}

\* str.isdigit on a column name
IsDigit(n) == n \in {"0", "1", "7", "42"}

(***************************************************************************)
(* sql_guard.py: the textual checks and rewrites                           *)
(***************************************************************************)
\* _remove_comments: /* ... */ and -- ... are replaced by a blank
_remove_comments(q) ==
    [q EXCEPT !.junk = IF @ \in {"comment", "cjk_comment"} THEN "none" ELSE @]

\* re.search(r"(?i)select\s*\*"): a star directly after the word SELECT
SelectStarRegex(q) == \E s \in Selects(q) : s.star = "first"

\* _strip_trailing_semicolon
_strip_trailing_semicolon(q) ==
    [q EXCEPT !.junk = IF @ = "semi" THEN "none" ELSE @]

\* _has_limit: the word LIMIT anywhere in the text, a LIMIT clause of any
\* (nested) query or the word inside a string literal alike
_has_limit(q) ==
    \/ \E s \in Selects(q) : s.limit.has \/ s.lit = "limit"
    \/ q.ulimit.has

\* Variant: the comma form clamped with offset and count exchanged.
ClampOneExchanged(l, max_limit) ==
    IF ~l.has THEN l
    ELSE IF l.form = "comma"
    THEN [l EXCEPT !.cnt = l.off, !.off = Min(l.cnt, max_limit)]
    ELSE [l EXCEPT !.cnt = Min(l.cnt, max_limit)]


\* _clamp_limit on one LIMIT clause.  The first substitution rewrites
\* "LIMIT off, cnt" with cnt clamped.  The second one, LIMIT (\d+)(?!\s*,),
\* clamps a lone count; on "LIMIT off, cnt" its \d+ backtracks by one digit
\* when off has two digits or more, so it clamps off without its last digit.
ClampOne(l, max_limit) ==
    IF ~l.has THEN l
    ELSE IF l.form = "comma"
    THEN [l EXCEPT !.cnt = Min(l.cnt, max_limit),
                   !.off = IF l.off >= 10
                           THEN Min(l.off \div 10, max_limit) * 10 + (l.off % 10)
                           ELSE l.off]
    ELSE [l EXCEPT !.cnt = Min(l.cnt, max_limit)]

_clamp_limit(q, max_limit) ==
    LET F(s) == [s EXCEPT !.limit = ClampOne(s.limit, max_limit)]
    IN  [MapSelects(q, F) EXCEPT !.ulimit = ClampOne(q.ulimit, max_limit)]

\* f"{norm_sql} LIMIT {max_limit}": text appended after the whole statement
AppendLimit(q, max_limit) ==
    IF q.shape = "union"
    THEN [q EXCEPT !.ulimit = LimitCount(max_limit)]
    ELSE [q EXCEPT !.outer.limit = LimitCount(max_limit)]

\* _fix_interval_literals: INTERVAL '7' DAY -> INTERVAL 7 DAY
_fix_interval_literals(q) ==
    LET F(s) == [s EXCEPT !.interval = IF @ = "quoted" THEN "bare" ELSE @]
    IN  MapSelects(q, F)

\* _quote_reserved_identifiers: every check/desc/key/user that stands as a
\* word of its own and is not back-quoted yet gets back-quotes, whether it is
\* an identifier or a word of a string literal (a literal's back-quoted word
\* is written <user> here)
QuoteId(id) ==
    IF ~id.quoted /\ id.name \in RESERVED_LIKE
    THEN [id EXCEPT !.quoted = TRUE] ELSE id

QuoteLit(l) ==
    CASE l = "user" -> "<user>"
      [] l = "desc" -> "<desc>"
      [] l = "DESC" -> "<DESC>"
      [] OTHER -> l

_quote_reserved_identifiers(q) ==
    LET F(s) == [s EXCEPT !.tables = {QuoteId(t) : t \in @},
                          !.cols = {QuoteId(c) : c \in @},
                          !.aliases = {QuoteId(a) : a \in @},
                          !.lit = QuoteLit(@)]
    IN  MapSelects(q, F)

\* _unquote_order_dir: `asc` / `desc` in back-quotes become ASC / DESC
UnquoteId(id) ==
    IF id.quoted /\ id.name \in {"asc", "desc"}
    THEN [id EXCEPT !.quoted = FALSE, !.upper = TRUE] ELSE id

UnquoteLit(l) == IF l \in {"<desc>", "<DESC>"} THEN "DESC" ELSE l

_unquote_order_dir(q) ==
    LET F(s) == [s EXCEPT !.tables = {UnquoteId(t) : t \in @},
                          !.cols = {UnquoteId(c) : c \in @},
                          !.aliases = {UnquoteId(a) : a \in @},
                          !.lit = UnquoteLit(@)]
    IN  MapSelects(q, F)

\* sqlglot.parse_one(...).sql(dialect): the text sqlglot writes for a tree
\* it parsed: no trailing semicolon, the number of an INTERVAL quoted
ParseEmit(q) ==
    LET F(s) == [s EXCEPT !.interval = IF @ = "bare" THEN "quoted" ELSE @]
    IN  [MapSelects(q, F) EXCEPT !.junk = IF @ = "semi" THEN "none" ELSE @]

\* lines 191-194 and 217-220: the four textual rewrites in their order
Normalise(q) ==
    _unquote_order_dir(_quote_reserved_identifiers(
        _fix_interval_literals(_strip_trailing_semicolon(q))))

\* lines 180-182: ORDER BY removed from every exp.Select (a UNION's own
\* ORDER BY hangs on the exp.Union node, which the loop does not visit)
StripOrderBy(q) ==
    LET F(s) == [s EXCEPT !.order = FALSE] IN MapSelects(q, F)

\* lines 213-215: LIMIT removed from every exp.Select
StripLimit(q) ==
    LET F(s) == [s EXCEPT !.limit = NoLimit] IN MapSelects(q, F)

\* lines 206-210: the top node is a Select, an aggregate call occurs anywhere
\* in the tree and no GROUP BY occurs anywhere in the tree
IsSingleRowAgg(q) ==
    /\ q.shape # "union"
    /\ \E s \in Selects(q) : s.agg
    /\ ~\E s \in Selects(q) : s.group

(***************************************************************************)
(* sql_guard.validate_and_rewrite                                          *)
(***************************************************************************)
\* A schema is a set of tables [name, columns]; a column whitelist
\* (allowed_columns_by_table) is a set of entries [t, cs], cs empty for a
\* table listed with no columns (None or []); no whitelist is the empty set.
AllowedTables(m_schema) == {_normalize(t.name) : t \in m_schema}

SchemaColumns(m_schema, tbl) ==
    {_normalize(c) : c \in UNION {t.columns : t \in {x \in m_schema : _normalize(x.name) = tbl}}}

\* line 150: the whitelist's columns for the entries naming tbl
ContractCols(allowed_columns_by_table, tbl) ==
    {_normalize(c) : c \in UNION {e.cs : e \in {x \in allowed_columns_by_table : _normalize(x.t) = tbl}}}

\* Variant: the whitelist narrows nothing.
TableToColumnsOfSchema(m_schema, allowed_columns_by_table, tbl) ==
    SchemaColumns(m_schema, tbl)

\* lines 144-156: table_to_columns, narrowed by the whitelist when one is given
TableToColumns(m_schema, allowed_columns_by_table, tbl) ==
    IF allowed_columns_by_table = {}
    THEN SchemaColumns(m_schema, tbl)
    ELSE IF ContractCols(allowed_columns_by_table, tbl) # {}
         THEN SchemaColumns(m_schema, tbl) \cap ContractCols(allowed_columns_by_table, tbl)
         ELSE SchemaColumns(m_schema, tbl)

\* lines 158-159
UnknownTables(q, m_schema) == _collect_table_names(q) \ AllowedTables(m_schema)

\* lines 163-172
UnknownCols(q, m_schema, allowed_columns_by_table, alias_env) ==
    LET all_allowed_columns ==
            UNION {TableToColumns(m_schema, allowed_columns_by_table, tbl) :
                       tbl \in AllowedTables(m_schema)}
        unknown == ((_collect_column_names(q) \ all_allowed_columns)
                        \ _collect_select_aliases(q)) \ _get_permitted_aliases(alias_env)
    IN  {c \in unknown : ~IsDigit(c)}

Accepted(q) == [ok |-> TRUE, sql |-> q, err |-> "none"]
SQLValidationError(e) == [ok |-> FALSE, sql |-> NoQuery, err |-> e]

\* Variant: the rewrite pays no attention to the permissive mode.
RewriteStrict(q, max_limit, keep_order_by, permissive_mode) ==
    LET norm_sql == Normalise(ParseEmit(IF ~keep_order_by THEN StripOrderBy(q) ELSE q))
    IN  IF IsSingleRowAgg(norm_sql)
        THEN Normalise(ParseEmit(StripLimit(norm_sql)))
        ELSE IF ~_has_limit(norm_sql)
             THEN AppendLimit(norm_sql, max_limit)
             ELSE _clamp_limit(norm_sql, max_limit)

\* lines 176-229, after the checks: the rewrite of an accepted statement
Rewrite(q, max_limit, keep_order_by, permissive_mode) ==
    LET expr == IF ~permissive_mode /\ ~keep_order_by THEN StripOrderBy(q) ELSE q
        norm_sql == Normalise(ParseEmit(expr))
    IN  IF permissive_mode THEN norm_sql
        ELSE IF IsSingleRowAgg(norm_sql)
             THEN Normalise(ParseEmit(StripLimit(norm_sql)))
             ELSE IF ~_has_limit(norm_sql)
                  THEN AppendLimit(norm_sql, max_limit)
                  ELSE _clamp_limit(norm_sql, max_limit)

\* p: [m_schema, max_limit, keep_order_by, allowed_columns_by_table,
\*     permissive_mode (SQL_PERMISSIVE_MODE = 1), alias_env (SQL_PERMITTED_ALIASES)]
validate_and_rewrite(text, p) ==
    LET q == _remove_comments(text) IN
    IF q.junk = "cjk" THEN SQLValidationError("cjk")
    ELSE IF q.junk = "specific" THEN SQLValidationError("placeholder")
    ELSE IF SelectStarRegex(q) THEN SQLValidationError("select_star")
    ELSE IF q.junk = "unparsable" THEN SQLValidationError("parse")
    ELSE IF q.junk = "nonselect" THEN SQLValidationError("not_select")
    ELSE IF UnknownTables(q, p.m_schema) # {} THEN SQLValidationError("table")
    ELSE IF UnknownCols(q, p.m_schema, p.allowed_columns_by_table, p.alias_env) # {}
         THEN SQLValidationError("column")
    ELSE Accepted(Rewrite(q, p.max_limit, p.keep_order_by, p.permissive_mode))

(***************************************************************************)
(* The Guard's caller: one call, then a second call on the output          *)
(***************************************************************************)
\* PlanV1(): the default plan
PlanV1 ==
    [task |-> "list", must_tables |-> <<>>, must_joins |-> <<>>, must_predicates |-> <<>>,
     should_tables |-> <<>>]

\* a reply of the Planner LLM.  kind: "error" (_chat_once raises), "nojson"
\* (no {...} in the text), "badjson" (json.loads raises), "badplan" (PlanV1
\* rejects the object), "plan"
Response(kind, p) == [kind |-> kind, plan |-> p]
NoResponse == Response("none", PlanV1)

\* llm_plan is not called
SchemaClip(ok, tables) == [ok |-> ok, tables |-> tables]

IdlePlanner ==
    /\ schema_clip = SchemaClip(TRUE, {})
    /\ semantic_tables = {}
    /\ planner_replies = {}
    /\ planner_tables = {}
    /\ raw_response = NoResponse
    /\ raw_response_retry = NoResponse
    /\ lplan = PlanV1
    /\ requests = 0
    /\ lpc = "idle"

\* do_ask is not called
IdleAsk ==
    /\ apc = "idle"
    /\ gen_response = "none"
    /\ sql_result = "none"
    /\ results = <<>>
    /\ traditional_calls = 0
    /\ guarded = {}

\* auto_select_tables is not called
IdleSelect ==
    /\ sel_tables = <<>>
    /\ sel_topk = 0
    /\ sel_result = [filtered |-> {}, scored |-> <<>>]
    /\ spc = "idle"

\* the validation engine is not called
IdleValidation ==
    /\ candidates = <<>>
    /\ plan = [must_tables |-> {}]
    /\ contract = [allowed_tables |-> {}, allowed_columns |-> {}, must_tables |-> {},
                   must_joins |-> <<>>, must_predicates |-> <<>>,
                   forbidden_clauses |-> {"ORDER BY"}]
    /\ ast_error = FALSE
    /\ anonParses = FALSE
    /\ valid = <<>>
    /\ best = <<>>
    /\ vpc = "idle"

Guard ==
    /\ gpc = "ready"
    /\ out' = validate_and_rewrite(sql, params)
    /\ gpc' = "once"
    /\ UNCHANGED <<sql, params, out2>>
    /\ UNCHANGED validationVars
    /\ UNCHANGED plannerVars
    /\ UNCHANGED askVars
    /\ UNCHANGED selectVars

GuardAgain ==
    /\ gpc = "once"
    /\ out.ok
    /\ out2' = validate_and_rewrite(out.sql, params)
    /\ gpc' = "twice"
    /\ UNCHANGED <<sql, params, out>>
    /\ UNCHANGED validationVars
    /\ UNCHANGED plannerVars
    /\ UNCHANGED askVars
    /\ UNCHANGED selectVars

NextGuard == Guard \/ GuardAgain

(***************************************************************************)
(* Inputs of the Guard                                                     *)
(***************************************************************************)
\* the schema handed to the Guard: t1(a, b, user), T2(c, desc), user(a)
GuardSchema ==
    { [name |-> Id("t1"), columns |-> {Id("a"), Id("b"), Id("user")}],
      [name |-> IdU("t2"), columns |-> {Id("c"), IdU("desc")}],
      [name |-> Id("user"), columns |-> {Id("a")}] }

Whitelists ==
    { {},
      {[t |-> Id("t1"), cs |-> {Id("a")}]},
      {[t |-> IdU("t1"), cs |-> {IdU("a"), Id("zz")}], [t |-> Id("t2"), cs |-> {}]},
      {[t |-> Id("t1"), cs |-> {Id("a"), Id("user")}], [t |-> Id("t2"), cs |-> {Id("desc")}]} }

GuardParams(ms, ks, ws, ps, es) ==
    { [m_schema |-> GuardSchema, max_limit |-> m, keep_order_by |-> k,
       allowed_columns_by_table |-> w, permissive_mode |-> pm, alias_env |-> e] :
         m \in ms, k \in ks, w \in ws, pm \in ps, e \in es }

\* Statements that differ in the names they use (tables, columns, aliases,
\* star projections, junk)
AccessTables == { {Id("t1")}, {IdU("t1"), Id("t2")}, {Id("user")}, {Id("zz")} }
AccessCols ==
    { {}, {Id("a")}, {IdU("a"), Id("b")}, {Id("c")}, {Id("desc")}, {Id("user")},
      {Id("n")}, {Id("cnt")}, {Id("x1")}, {IdQ("7")}, {Id("zz")} }
AccessInner ==
    { Sel(st, ts, cs, {}, FALSE, FALSE, FALSE, NoLimit, "none", "none") :
        st \in {"no", "first"}, ts \in {{Id("t2")}, {Id("zz")}}, cs \in {{Id("c")}, {Id("zz")}} }

AccessQueries ==
    { Qry("select", Sel(st, ts, cs, al, FALSE, FALSE, FALSE, NoLimit, "none", "none"),
          NoSel, FALSE, NoLimit, j) :
        st \in {"no", "first", "distinct"}, ts \in AccessTables, cs \in AccessCols,
        al \in {{}, {Id("n")}},
        j \in {"none", "comment", "cjk_comment", "semi", "cjk", "specific",
               "unparsable", "nonselect"} }
    \cup
    { Qry(sh, Sel("no", ts, cs, {}, FALSE, FALSE, FALSE, NoLimit, "none", "none"),
          inner, FALSE, NoLimit, "none") :
        sh \in {"sub", "union"}, ts \in AccessTables, cs \in {{Id("a")}, {Id("zz")}},
        inner \in AccessInner }

InitAccess ==
    /\ sql \in AccessQueries
    /\ params \in GuardParams({DEFAULT_MAX_LIMIT}, {FALSE}, Whitelists, {FALSE}, {{}, {IdU("x1")}})
    /\ out = SQLValidationError("none")
    /\ out2 = SQLValidationError("none")
    /\ gpc = "ready"
    /\ IdleValidation
    /\ IdlePlanner
    /\ IdleAsk
    /\ IdleSelect

SpecAccess == InitAccess /\ [][NextGuard]_vars

\* Statements that differ in what the rewrite touches: ORDER BY, LIMIT,
\* aggregates, GROUP BY, nesting, UNION, reserved-like names, literals
RewriteLimits ==
    { NoLimit, LimitCount(5), LimitCount(500), LimitComma(3000, 500), LimitOffset(500, 3000) }

RewriteOuter ==
    { Sel("no", {Id("t1")}, d[1], {}, ag, gr, ob, lm, d[2], d[3]) :
        ag \in BOOLEAN, gr \in BOOLEAN, ob \in BOOLEAN, lm \in RewriteLimits,
        d \in { <<{Id("a")}, "none", "none">>,
                <<{Id("user")}, "quoted", "user">>,
                <<{Id("desc")}, "bare", "desc">>,
                <<{IdQ("desc")}, "none", "limit">>,
                <<{IdU("user"), Id("b")}, "none", "x">> } }

RewriteNested ==
    { Sel("no", {Id("t2")}, {Id("c")}, {}, ag, gr, ob, lm, "none", "none") :
        ag \in BOOLEAN, gr \in BOOLEAN, ob \in BOOLEAN, lm \in {NoLimit, LimitCount(500)} }

RewriteBranch ==
    { Sel("no", {Id("t2")}, {Id("c")}, {}, FALSE, FALSE, ob, lm, "none", "none") :
        ob \in BOOLEAN, lm \in {NoLimit, LimitCount(500)} }

RewriteQueries ==
    { Qry("select", o, NoSel, FALSE, NoLimit, j) : o \in RewriteOuter, j \in {"none", "semi"} }
    \cup { Qry("sub", o, i, FALSE, NoLimit, "none") : o \in RewriteOuter, i \in RewriteNested }
    \cup { Qry("union", o, i, uo, ul, "none") :
             o \in {x \in RewriteOuter : ~x.agg /\ ~x.group}, i \in RewriteBranch,
             uo \in BOOLEAN, ul \in {NoLimit, LimitCount(500)} }

\* Statements with ORDER BY and LIMIT that a check of the Guard meets
RewriteChecked ==
    { Qry("select", Sel(d[1], {Id(d[2])}, {Id(d[3])}, {}, FALSE, FALSE, TRUE, LimitCount(500),
                        "none", "none"),
          NoSel, FALSE, NoLimit, d[4]) :
        d \in { <<"no", "t1", "a", "cjk">>, <<"no", "t1", "a", "specific">>,
                <<"no", "t1", "a", "unparsable">>, <<"no", "t1", "a", "nonselect">>,
                <<"no", "t1", "a", "cjk_comment">>, <<"first", "t1", "a", "none">>,
                <<"no", "zz", "a", "none">>, <<"no", "t1", "zz", "none">> } }

InitRewrite ==
    /\ sql \in RewriteQueries \cup RewriteChecked
    /\ params \in GuardParams({DEFAULT_MAX_LIMIT}, BOOLEAN, {{}}, BOOLEAN, {{}})
    /\ out = SQLValidationError("none")
    /\ out2 = SQLValidationError("none")
    /\ gpc = "ready"
    /\ IdleValidation
    /\ IdlePlanner
    /\ IdleAsk
    /\ IdleSelect

SpecRewrite == InitRewrite /\ [][NextGuard]_vars

(***************************************************************************)
(* Properties of the Guard                                                 *)
(***************************************************************************)
AllTables(q) == UNION {s.tables : s \in Selects(q)}
AllCols(q) == UNION {ColumnIds(s) : s \in Selects(q)}
AllAliases(q) == UNION {s.aliases : s \in Selects(q)}
Called == gpc # "ready"

\* C1: every table of an emitted statement is, ignoring case, a table of the
\* schema given to the Guard, and a statement naming another table is rejected.
C1_TablesInSchema ==
    Called =>
        /\ out.ok => \A t \in AllTables(out.sql) :
                        \E st \in params.m_schema : st.name.name = t.name
        /\ (\E t \in AllTables(sql) : \A st \in params.m_schema : st.name.name # t.name)
              => ~out.ok

C1_Witness ==
    /\ Called /\ out.ok /\ sql.shape = "sub"
    /\ \E t \in AllTables(out.sql) : t.upper
    /\ \E t \in AllTables(out.sql) : \E st \in params.m_schema :
           st.name.name = t.name /\ st.name.upper /\ ~t.upper

\* the columns the whitelist lists, over all its entries
WhitelistCols(w) == {c.name : c \in UNION {e.cs : e \in w}}
\* the schema tables for which the whitelist lists no column
UnlistedTables(ms, w) ==
    {t \in ms : \A e \in w : e.t.name = t.name.name => e.cs = {}}
FreeName(c, q, p) ==
    \/ c.name \in {a.name : a \in AllAliases(q)}
    \/ c.name \in DEFAULT_DERIVED_ALIASES \cup {e.name : e \in p.alias_env}
    \/ c.name \in {"0", "1", "7", "42"}

C4_NoOrderBy ==
    (Called /\ out.ok /\ ~params.permissive_mode /\ ~params.keep_order_by) =>
        /\ \A s \in Selects(out.sql) : ~s.order
        /\ ~out.sql.uorder

\* C5 (as claimed): no emitted SELECT has an unqualified star in its projection.
C5_NoSelectStar ==
    (Called /\ out.ok) => \A s \in Selects(out.sql) : s.star = "no"

\* the outer SELECT has an aggregate and no GROUP BY
OuterSingleRowAgg(q) == q.shape # "union" /\ q.outer.agg /\ ~q.outer.group
\* the LIMIT that ends the outermost query
OuterLimit(q) == IF q.shape = "union" THEN q.ulimit ELSE q.outer.limit
AnyLimit(q) == q.ulimit.has \/ \E s \in Selects(q) : s.limit.has

\* C6 (as claimed): in strict mode an emitted statement that is not a
\* single-row aggregate ends with LIMIT n, n <= max_limit.
C6_EndsWithLimit ==
    (Called /\ out.ok /\ ~params.permissive_mode /\ ~OuterSingleRowAgg(out.sql)) =>
        /\ OuterLimit(out.sql).has
        /\ OuterLimit(out.sql).cnt <= params.max_limit

\* C7 (as claimed): in strict mode a single-row aggregate is emitted without
\* any LIMIT, and only a statement whose outer SELECT is a single-row
\* aggregate is treated so (any other ends with its LIMIT).
C7_SingleRowAggNoLimit ==
    (Called /\ out.ok /\ ~params.permissive_mode) =>
        /\ OuterSingleRowAgg(sql) => ~AnyLimit(out.sql)
        /\ ~OuterSingleRowAgg(sql) => OuterLimit(out.sql).has

SameLimit(l1, l2) == l1.has = l2.has /\ (l1.has => (l1.off = l2.off /\ l1.cnt = l2.cnt))
SameOrderAndLimit(q1, q2) ==
    /\ q1.shape = q2.shape
    /\ q1.outer.order = q2.outer.order /\ SameLimit(q1.outer.limit, q2.outer.limit)
    /\ q1.shape # "select" =>
          (q1.inner.order = q2.inner.order /\ SameLimit(q1.inner.limit, q2.inner.limit))
    /\ q1.uorder = q2.uorder /\ SameLimit(q1.ulimit, q2.ulimit)

\* the statement is one the checks of the Guard refuse
Refused(q, p) ==
    \/ q.junk \in {"cjk", "specific", "unparsable", "nonselect"}
    \/ \E s \in Selects(q) : s.star = "first"
    \/ \E t \in AllTables(q) : t.name \notin {x.name.name : x \in p.m_schema}
    \/ \E c \in AllCols(q) : c.name = "zz"

\* C16: with SQL_PERMISSIVE_MODE=1 an accepted statement keeps its ORDER BY
\* and its LIMIT as they were, and the checks refuse what they refuse in
\* strict mode: CJK text, specific_ placeholders, SELECT *, statements that
\* are no SELECT or do not parse, unauthorized tables and columns.
C16_PermissiveKeepsOrderAndLimit ==
    (Called /\ params.permissive_mode) =>
        /\ out.ok => SameOrderAndLimit(sql, out.sql)
        /\ Refused(sql, params) => ~out.ok
        /\ out.ok = validate_and_rewrite(sql, [params EXCEPT !.permissive_mode = FALSE]).ok
        /\ out.err = validate_and_rewrite(sql, [params EXCEPT !.permissive_mode = FALSE]).err

C16_Witness ==
    /\ Called /\ params.permissive_mode /\ ~params.keep_order_by /\ out.ok
    /\ sql.outer.order /\ sql.outer.limit.has /\ sql.outer.limit.cnt > params.max_limit
    /\ ~sql.outer.agg

C16_WitnessRefused ==
    Called /\ params.permissive_mode /\ ~out.ok /\ out.err = "column"

\* the LIMIT l0 with its count clamped and nothing else changed
ClampedFrom(l, l0, max_limit) ==
    /\ l.has = l0.has
    /\ l0.has => (l.form = l0.form /\ l.off = l0.off /\ l.cnt = Min(l0.cnt, max_limit))

\* C26: where the Guard ends with _clamp_limit, every LIMIT of the statement
\* has its count replaced by min(count, max_limit) and its offset as written,
\* in the form LIMIT offset, count as in the form LIMIT count OFFSET offset.
C26_ClampKeepsOffset ==
    (/\ Called /\ out.ok /\ ~params.permissive_mode
     /\ ~IsSingleRowAgg(sql) /\ _has_limit(sql)) =>
        /\ ClampedFrom(out.sql.outer.limit, sql.outer.limit, params.max_limit)
        /\ sql.shape # "select" =>
              ClampedFrom(out.sql.inner.limit, sql.inner.limit, params.max_limit)
        /\ ClampedFrom(out.sql.ulimit, sql.ulimit, params.max_limit)

\* what a SELECT's conditions and literals say is the same in both: the same
\* WHERE and ON conditions, the same string literal, the same column names,
\* and a column written in back-quotes is still written in back-quotes
KeepsMeaning(s0, s1) ==
    /\ s1.where = s0.where /\ s1.join = s0.join
    /\ s1.lit = s0.lit
    /\ {c.name : c \in s1.cols} = {c.name : c \in s0.cols}
    /\ \A c \in s0.cols : c.quoted => \E d \in s1.cols : d.name = c.name /\ d.quoted

\* C30: apart from ORDER BY, LIMIT, the quotes of a numeric INTERVAL literal
\* and back-quotes put around check, desc, key, user as identifiers, the
\* emitted statement says what the input says: conditions, string literals
\* and columns are the same.
C30_RewriteKeepsMeaning ==
    (Called /\ out.ok) =>
        /\ KeepsMeaning(sql.outer, out.sql.outer)
        /\ sql.shape # "select" => KeepsMeaning(sql.inner, out.sql.inner)

(***************************************************************************)
(* Text of predicates.  A text is a sequence of symbols: a keyword or an   *)
(* identifier is one symbol, a digit, a blank and a punctuation mark are   *)
(* one symbol each.                                                        *)
(***************************************************************************)
RECURSIVE Flatten(_)
Flatten(ss) == IF ss = <<>> THEN <<>> ELSE Head(ss) \o Flatten(Tail(ss))

\* str.lower
LowerSym(c) ==
    CASE c = "AND" -> "and" [] c = "OR" -> "or" [] c = "NOT" -> "not"
      [] c = "IS" -> "is" [] c = "NULL" -> "null"
      [] c = "T" -> "t" [] c = "U" -> "u" [] c = "X" -> "x" [] c = "Y" -> "y"
      [] c = "ID" -> "id"
      [] OTHER -> c
Lower(s) == [i \in 1..Len(s) |-> LowerSym(s[i])]

\* \w
IsWord(c) == c \notin {" ", ".", "=", "(", ")", ",", "<", ">"}
IsDigitSym(c) == c \in {"0", "1", "2", "5"}
\* [a-z_][a-z0-9_]* on one symbol
IsIdent(c) == IsWord(c) /\ ~IsDigitSym(c)

\* number of characters of a symbol, of a text
CharLen(c) ==
    CASE LowerSym(c) \in {"and", "not"} -> 3
      [] LowerSym(c) \in {"is", "or", "id", "zz"} -> 2
      [] LowerSym(c) = "null" -> 4
      [] OTHER -> 1
RECURSIVE TextLen(_)
TextLen(s) == IF s = <<>> THEN 0 ELSE CharLen(Head(s)) + TextLen(Tail(s))

\* str.strip
RECURSIVE LStrip(_)
LStrip(s) == IF s # <<>> /\ Head(s) = " " THEN LStrip(Tail(s)) ELSE s
RECURSIVE RStrip(_)
RStrip(s) == IF s # <<>> /\ s[Len(s)] = " " THEN RStrip(SubSeq(s, 1, Len(s) - 1)) ELSE s
Strip(s) == RStrip(LStrip(s))

\* re.sub(r'\s+', ' ', s)
RECURSIVE CollapseSpaces(_)
CollapseSpaces(s) ==
    IF Len(s) < 2 THEN s
    ELSE IF s[1] = " " /\ s[2] = " " THEN CollapseSpaces(Tail(s))
    ELSE <<s[1]>> \o CollapseSpaces(Tail(s))

\* a in b
IsSubstring(a, b) ==
    \E i \in 0..(Len(b) - Len(a)) : SubSeq(b, i + 1, i + Len(a)) = a

\* re.sub(r'\b\w+\.', '', s): every run of word symbols that a dot follows
\* goes, with the dot
RECURSIVE RunEnd(_, _)
RunEnd(s, i) == IF i < Len(s) /\ IsWord(s[i + 1]) THEN RunEnd(s, i + 1) ELSE i
BeforeDot(s, i) ==
    /\ IsWord(s[i])
    /\ RunEnd(s, i) < Len(s)
    /\ s[RunEnd(s, i) + 1] = "."
RECURSIVE StripFrom(_, _)
StripFrom(s, i) ==
    IF i > Len(s) THEN <<>>
    ELSE IF BeforeDot(s, i) \/ (s[i] = "." /\ i > 1 /\ IsWord(s[i - 1]))
         THEN StripFrom(s, i + 1)
         ELSE <<s[i]>> \o StripFrom(s, i + 1)
StripTablePrefixes(s) == StripFrom(s, 1)

\* index after the blanks that start at i (i itself when s[i] is no blank)
RECURSIVE SkipSpaces(_, _)
SkipSpaces(s, i) == IF i <= Len(s) /\ s[i] = " " THEN SkipSpaces(s, i + 1) ELSE i

\* Match at i of  w1 \s+ <ident> \s+ w2 \s+ ... : pat is a sequence of
\* keywords, "%" standing for the identifier group.  The result is
\* [end, id]: the index after the match (0: no match) and the identifier.
RECURSIVE MatchWords(_, _, _, _)
MatchWords(s, i, pat, id) ==
    IF pat = <<>> THEN [end |-> i, id |-> id]
    ELSE IF i > Len(s) THEN [end |-> 0, id |-> id]
    ELSE LET ok == IF Head(pat) = "%" THEN IsIdent(s[i]) ELSE s[i] = Head(pat)
             id1 == IF Head(pat) = "%" THEN s[i] ELSE id
             j == SkipSpaces(s, i + 1)
         IN  IF ~ok THEN [end |-> 0, id |-> id]
             ELSE IF Len(pat) = 1 THEN [end |-> i + 1, id |-> id1]
             ELSE IF j = i + 1 THEN [end |-> 0, id |-> id]
             ELSE MatchWords(s, j, Tail(pat), id1)

\* re.sub(r"\bnot\s+(ident)\s+is\s+null\b", r"\1 is not null", s) for
\* pat = not % is null, and the like: every match from the left, replaced.
\* SubWordsAt: the step at i, m being the match of pat there
RECURSIVE SubWords(_, _, _, _)
SubWordsAt(s, i, pat, repl, m) ==
    IF /\ m.end # 0
       /\ (i = 1 \/ ~IsWord(s[i - 1]))
       /\ (m.end > Len(s) \/ ~IsWord(s[m.end]))
    THEN [k \in 1..Len(repl) |-> IF repl[k] = "%" THEN m.id ELSE repl[k]]
             \o SubWords(s, m.end, pat, repl)
    ELSE <<s[i]>> \o SubWords(s, i + 1, pat, repl)
SubWords(s, i, pat, repl) ==
    IF i > Len(s) THEN <<>> ELSE SubWordsAt(s, i, pat, repl, MatchWords(s, i, pat, ""))

(***************************************************************************)
(* ast_validator.py: normalisation and presence of predicates and joins    *)
(***************************************************************************)
normalize_predicate(predicate) ==
    LET s1 == StripTablePrefixes(Lower(predicate))
        s2 == SubWords(s1, 1, <<"not", "%", "is", "null">>,
                       <<"%", " ", "is", " ", "not", " ", "null">>)
        s3 == SubWords(s2, 1, <<"not", "%", "is", "not", "null">>,
                       <<"%", " ", "is", " ", "null">>)
    IN  CollapseSpaces(Strip(s3))

\* re.split(r"(?i)\band\b", predicate)
RECURSIVE SplitAnd(_, _)
SplitAnd(s, acc) ==
    IF s = <<>> THEN <<acc>>
    ELSE IF LowerSym(Head(s)) = "and" THEN <<acc>> \o SplitAnd(Tail(s), <<>>)
    ELSE SplitAnd(Tail(s), Append(acc, Head(s)))

\* one part of the split: stripped, one pair of wrapping parentheses removed
Unwrap(s) ==
    IF s # <<>> /\ Head(s) = "(" /\ s[Len(s)] = ")"
    THEN Strip(SubSeq(s, 2, Len(s) - 1)) ELSE s
AtomOf(part) == Unwrap(Strip(part))

\* the parts that are not empty
AtomsOf(parts) ==
    SelectSeq([i \in 1..Len(parts) |-> AtomOf(parts[i])], LAMBDA a : a # <<>>)

decompose_predicate_to_atoms(predicate) ==
    IF predicate = <<>> THEN <<>> ELSE AtomsOf(SplitAnd(predicate, <<>>))

\* re.sub(r'\s*=\s*', '=', s)
TightenEquals(s) ==
    SelectSeq([i \in 1..Len(s) |->
        IF s[i] = " " /\ (SkipSpaces(s, i) <= Len(s) /\ s[SkipSpaces(s, i)] = "=")
        THEN "drop"
        ELSE IF s[i] = " " /\ \E k \in 1..(i - 1) :
                    s[k] = "=" /\ \A m \in (k + 1)..i : s[m] = " "
        THEN "drop" ELSE s[i]], LAMBDA c : c # "drop")

normalize_join_condition(join_condition) ==
    CollapseSpaces(Strip(TightenEquals(StripTablePrefixes(Lower(join_condition)))))

\* atom_norm in condition_norm, for some condition
AtomFound(where_conditions, atom) ==
    \E k \in 1..Len(where_conditions) :
        IsSubstring(normalize_predicate(atom), normalize_predicate(where_conditions[k]))

AllAtomsFound(where_conditions, atoms) ==
    /\ atoms # <<>>
    /\ \A i \in 1..Len(atoms) : AtomFound(where_conditions, atoms[i])

SomeAtomFound(where_conditions, atoms) ==
    /\ atoms # <<>>
    /\ \E i \in 1..Len(atoms) : AtomFound(where_conditions, atoms[i])

\* Variant: one atom found is enough.
check_predicate_presence_any(where_conditions, required_predicate) ==
    SomeAtomFound(where_conditions, decompose_predicate_to_atoms(required_predicate))

check_predicate_presence(where_conditions, required_predicate) ==
    AllAtomsFound(where_conditions, decompose_predicate_to_atoms(required_predicate))

check_join_presence(join_conditions, required_join) ==
    \E k \in 1..Len(join_conditions) :
        IsSubstring(normalize_join_condition(required_join),
                    normalize_join_condition(join_conditions[k]))

(***************************************************************************)
(* Conditions of a WHERE clause, as sqlglot parses and writes them         *)
(***************************************************************************)
\* One conjunct.  kind: "notnull" (c IS NOT NULL), "isnull", "notnot"
\* (NOT c IS NOT NULL), "eq" (c = number), "anon" (exp.Anonymous around a
\* text that did not parse), "raw" (a text that does not parse, as it stands
\* in the SQL string).  tbl: the table prefix as written ("": none).
Atom(kind, tbl, col, val) ==
    [kind |-> kind, tbl |-> tbl, col |-> col, val |-> val, paren |-> FALSE, raw |-> <<>>]
Anonymous(this) ==
    [kind |-> "anon", tbl |-> "", col |-> "", val |-> <<>>, paren |-> FALSE, raw |-> this]
RawText(text) ==
    [kind |-> "raw", tbl |-> "", col |-> "", val |-> <<>>, paren |-> FALSE, raw |-> text]
ParseError == [kind |-> "fail", tbl |-> "", col |-> "", val |-> <<>>, paren |-> FALSE, raw |-> <<>>]

ColRef(a) == IF a.tbl = "" THEN <<a.col>> ELSE <<a.tbl, ".", a.col>>

\* Expression.sql(dialect="mysql") of one conjunct: IS NOT NULL is written
\* NOT ... IS NULL, an Anonymous is written as a call of its text
EmitAtom(a) ==
    LET core ==
          CASE a.kind = "notnull" -> <<"NOT", " ">> \o ColRef(a) \o <<" ", "IS", " ", "NULL">>
            [] a.kind = "notnot" -> <<"NOT", " ", "NOT", " ">> \o ColRef(a) \o <<" ", "IS", " ", "NULL">>
            [] a.kind = "isnull" -> ColRef(a) \o <<" ", "IS", " ", "NULL">>
            [] a.kind = "eq" -> ColRef(a) \o <<" ", "=", " ">> \o a.val
            [] a.kind = "anon" -> a.raw \o <<"(", ")">>
            [] OTHER -> a.raw
    IN  IF a.paren THEN <<"(">> \o core \o <<")">> ELSE core

RECURSIVE JoinAnd(_)
JoinAnd(texts) ==
    IF texts = <<>> THEN <<>>
    ELSE IF Len(texts) = 1 THEN texts[1]
    ELSE texts[1] \o <<" ", "AND", " ">> \o JoinAnd(Tail(texts))

\* the conjuncts' texts joined, the first n of them in parentheses
JoinGrouped(texts, n) ==
    IF n >= 2
    THEN JoinAnd(<<<<"(">> \o JoinAnd(SubSeq(texts, 1, n)) \o <<")">>>>
                 \o SubSeq(texts, n + 1, Len(texts)))
    ELSE JoinAnd(texts)

\* where.this.sql(dialect="mysql") of one SELECT
EmitWhere(s) == JoinGrouped([i \in 1..Len(s.where) |-> EmitAtom(s.where[i])], s.wgroup)

\* join.on.sql(dialect="mysql") of one JOIN
EmitJoin(j) == <<j.lt, ".", j.lc, " ", "=", " ", j.rt, ".", j.rc>>

IsKeyword(c) == LowerSym(c) \in {"and", "or", "not", "is", "null"}
IsName(c) == IsIdent(c) /\ ~IsKeyword(c)

\* the column reference that starts the tokens: n, the number of its tokens
\* (0: there is none), its table prefix and its name
ColumnAt(toks) ==
    IF Len(toks) >= 3 /\ toks[2] = "." /\ IsName(toks[1]) /\ IsName(toks[3])
    THEN [n |-> 3, tbl |-> toks[1], col |-> toks[3]]
    ELSE IF toks # <<>> /\ IsName(toks[1])
    THEN [n |-> 1, tbl |-> "", col |-> toks[1]]
    ELSE [n |-> 0, tbl |-> "", col |-> ""]

IsNumber(val) ==
    /\ val # <<>> /\ IsDigitSym(val[1]) /\ IsDigitSym(val[Len(val)])
    /\ \A k \in 1..Len(val) : IsDigitSym(val[k]) \/ val[k] = "."
    /\ Cardinality({k \in 1..Len(val) : val[k] = "."}) <= 1

\* the text behind the first "="
RECURSIVE AfterEquals(_)
AfterEquals(s) ==
    IF s = <<>> THEN <<>>
    ELSE IF Head(s) = "=" THEN Strip(Tail(s)) ELSE AfterEquals(Tail(s))

\* a condition on column c: rest, the tokens behind the column; val, the
\* text behind "="; negated, whether NOT stands in front
ParseRest(c, rest, val, negated) ==
    IF c.n = 0 THEN ParseError
    ELSE IF rest = <<"is", "not", "null">>
         THEN Atom(IF negated THEN "notnot" ELSE "notnull", c.tbl, c.col, <<>>)
    ELSE IF rest = <<"is", "null">>
         THEN Atom(IF negated THEN "notnull" ELSE "isnull", c.tbl, c.col, <<>>)
    ELSE IF ~negated /\ rest # <<>> /\ rest[1] = "=" /\ IsNumber(val)
         THEN Atom("eq", c.tbl, c.col, val)
    ELSE ParseError

ParseColumn(c, toks, val, negated) ==
    ParseRest(c, SubSeq(Lower(toks), c.n + 1, Len(toks)), val, negated)

\* sqlglot.parse_one("SELECT * FROM dummy WHERE " + pred).find(exp.Where).this
\* for a text without AND; ParseError: parse_one raises
ParseBare(toks, text) ==
    IF toks # <<>> /\ LowerSym(toks[1]) = "not"
    THEN ParseColumn(ColumnAt(Tail(toks)), Tail(toks), <<>>, TRUE)
    ELSE ParseColumn(ColumnAt(toks), toks, AfterEquals(text), FALSE)

Parenthesised(a) == IF a.kind = "fail" THEN a ELSE [a EXCEPT !.paren = TRUE]

ParseTokens(toks, text) ==
    IF Len(toks) >= 2 /\ toks[1] = "(" /\ toks[Len(toks)] = ")"
    THEN Parenthesised(ParseBare(SubSeq(toks, 2, Len(toks) - 1),
                                 Strip(SubSeq(text, 2, Len(text) - 1))))
    ELSE ParseBare(toks, text)

ParseAtom(pred) == ParseTokens(SelectSeq(pred, LAMBDA c : c # " "), Strip(pred))

(***************************************************************************)
(* ast_validator.py: what a parsed statement holds                         *)
(***************************************************************************)
\* A SQL string: the statement q it spells and pad, the number of its
\* characters beyond the text sqlglot writes for q (blanks, line breaks).
Str(q, pad) == [q |-> q, pad |-> pad]

\* sqlglot.parse_one(sql, read="mysql") returns a tree
Parses(q) ==
    /\ q.junk \notin {"unparsable", "empty"}
    /\ (\E s \in Selects(q) : \E i \in 1..Len(s.where) : s.where[i].kind \in {"anon", "raw"})
          => anonParses

\* find_all visits the outer SELECT before the nested one
SelectsInOrder(q) == IF q.shape = "select" THEN <<q.outer>> ELSE <<q.outer, q.inner>>

extract_table_references(q) == {t.name : t \in UNION {s.tables : s \in Selects(q)}}

extract_column_references(q) == {c.name : c \in UNION {ColumnIds(s) : s \in Selects(q)}}

extract_join_conditions(q) ==
    LET ss == SelectsInOrder(q)
    IN  Flatten([k \in 1..Len(ss) |->
                   [i \in 1..Len(ss[k].join) |-> Lower(EmitJoin(ss[k].join[i]))]])

extract_where_conditions(q) ==
    LET ss == SelectSeq(SelectsInOrder(q), LAMBDA s : s.where # <<>>)
    IN  [k \in 1..Len(ss) |-> Lower(EmitWhere(ss[k]))]

validate_must_tables_ast(q, must_tables) ==
    \A t \in must_tables : t.name \in extract_table_references(q)

validate_must_joins_ast(q, must_joins) ==
    \A i \in 1..Len(must_joins) :
        check_join_presence(extract_join_conditions(q), must_joins[i])

validate_must_predicates_ast(q, must_predicates) ==
    \A i \in 1..Len(must_predicates) :
        check_predicate_presence(extract_where_conditions(q), must_predicates[i])

validate_allowed_tables_ast(q, allowed_tables) ==
    extract_table_references(q) \subseteq {t.name : t \in allowed_tables}

validate_allowed_columns_ast(q, allowed_columns) ==
    extract_column_references(q) \subseteq
        {c.name : c \in UNION {w.cs : w \in allowed_columns}}

ASTValidationResult(all_errors) == [passed |-> all_errors = {}, errors |-> all_errors]

\* each check runs only for a non-empty list; errors: the kinds of error
comprehensive_ast_validation(q, must_tables, must_joins, must_predicates, allowed_tables, allowed_columns) ==
    IF ~Parses(q) THEN ASTValidationResult({"parse"})
    ELSE ASTValidationResult(
             (IF must_tables # {} /\ ~validate_must_tables_ast(q, must_tables)
              THEN {"must_table"} ELSE {})
             \cup (IF must_joins # <<>> /\ ~validate_must_joins_ast(q, must_joins)
                   THEN {"must_join"} ELSE {})
             \cup (IF must_predicates # <<>> /\ ~validate_must_predicates_ast(q, must_predicates)
                   THEN {"must_predicate"} ELSE {})
             \cup (IF allowed_tables # {} /\ ~validate_allowed_tables_ast(q, allowed_tables)
                   THEN {"table"} ELSE {})
             \cup (IF allowed_columns # {} /\ ~validate_allowed_columns_ast(q, allowed_columns)
                   THEN {"column"} ELSE {}))

(***************************************************************************)
(* validation_engine.py                                                    *)
(***************************************************************************)
\* the elements of a sequence
Range(seq) == {seq[i] : i \in 1..Len(seq)}

\* a table name as the contract spells it
Written(id) ==
    IF ~id.upper THEN id.name
    ELSE IF id.name = "t" THEN "T" ELSE IF id.name = "u" THEN "U" ELSE id.name

\* re.findall(r'(\w+)\.', join)
TablesInJoin(join) ==
    {join[k] : k \in {i \in 1..(Len(join) - 1) : IsWord(join[i]) /\ join[i + 1] = "."}}

\* ValidationResult(passed, errors): the fields of the AST result
ValidationResult(ast_result) == ast_result

\* lines 52-60 of validate_must_constraints: the tables of the MUST joins that the contract allows
InferredTables(c) ==
    {t \in c.allowed_tables :
        \E i \in 1..Len(c.must_joins) : Written(t) \in TablesInJoin(c.must_joins[i])}

\* the conditions of the statement as its text spells them
ConditionTexts(q) ==
    Range(extract_where_conditions(q)) \cup Range(extract_join_conditions(q))

\* lines 71-86: the check taken when comprehensive_ast_validation raises.
\* pred.lower() in sql.lower(), and the join without its table prefixes in
\* sql.lower(); the text outside the conditions holds no operator
BasicStringErrors(q, c) ==
    (IF \E i \in 1..Len(c.must_predicates) :
           \A w \in ConditionTexts(q) : ~IsSubstring(Lower(c.must_predicates[i]), w)
     THEN {"must_predicate"} ELSE {})
    \cup (IF \E i \in 1..Len(c.must_joins) :
                \A w \in ConditionTexts(q) :
                    ~IsSubstring(StripTablePrefixes(Lower(c.must_joins[i])), w)
          THEN {"must_join"} ELSE {})

\* a statement that does not parse is refused inside
\* comprehensive_ast_validation, before anything can raise
validate_must_constraints(text, p, c) ==
    IF ast_error /\ Parses(text.q)
    THEN ValidationResult(ASTValidationResult(BasicStringErrors(text.q, c)))
    ELSE ValidationResult(comprehensive_ast_validation(text.q,
             IF p.must_tables # {} THEN p.must_tables
             ELSE IF c.must_tables # {} THEN c.must_tables
             ELSE IF c.must_joins # <<>> THEN InferredTables(c)
             ELSE {},
             c.must_joins, c.must_predicates, c.allowed_tables, c.allowed_columns))

\* number of characters of the text sqlglot writes for a statement
RECURSIVE SumLen(_)
SumLen(texts) == IF texts = <<>> THEN 0 ELSE TextLen(Head(texts)) + SumLen(Tail(texts))
SelLen(s) ==
    14 + 3 * Cardinality(s.cols) + 2 * Cardinality(s.tables)
    + SumLen([i \in 1..Len(s.join) |-> EmitJoin(s.join[i])]) + 9 * Len(s.join)
    + (IF s.where = <<>> THEN 0 ELSE 7 + TextLen(EmitWhere(s)))
QLen(q) ==
    IF q.junk = "empty" THEN 0
    ELSE SelLen(q.outer) + (IF q.shape = "select" THEN 0 ELSE 9 + SelLen(q.inner))

\* len(sql)
len(text) == QLen(text.q) + text.pad

\* lines 160-167: the conditions parsed from the predicates
NewCondition(pred, a) == IF a.kind = "fail" THEN Anonymous(pred) ELSE a
NewConditions(predicates) ==
    [i \in 1..Len(predicates) |-> NewCondition(predicates[i], ParseAtom(predicates[i]))]

\* exp.and_(existing_where.this, *new_conditions): a condition of several
\* conjuncts goes in parentheses
AndConditions(s, new_conditions) ==
    [s EXCEPT !.where = @ \o new_conditions,
              !.wgroup = IF Len(s.where) >= 2 THEN Len(s.where) ELSE 0]

\* lines 152-183: the predicates become conditions of the first exp.Where
\* the tree holds (the outer SELECT's, else the nested one's), or a new WHERE
\* of the outer SELECT; the tree is written out
InjectAST(text, predicates) ==
    Str(ParseEmit(
            IF text.q.outer.where = <<>> /\ text.q.shape = "sub" /\ text.q.inner.where # <<>>
            THEN [text.q EXCEPT !.inner = AndConditions(@, NewConditions(predicates))]
            ELSE [text.q EXCEPT !.outer = AndConditions(@, NewConditions(predicates))]),
        0)

\* line 190: "(p)" as the parser reads it
Pasted(pred, a) ==
    IF a.kind = "fail" THEN RawText(<<"(">> \o pred \o <<")">>) ELSE [a EXCEPT !.paren = TRUE]
Clause(predicates) ==
    [i \in 1..Len(predicates) |-> Pasted(predicates[i], ParseAtom(predicates[i]))]

\* whether the pasted clause lands in the outer (first) SELECT
PasteInOuter(q) ==
    IF q.outer.where # <<>> THEN TRUE
    ELSE IF q.shape # "select" /\ q.inner.where # <<>> THEN FALSE
    ELSE q.shape = "select" \/ q.outer.group \/ q.outer.order \/ q.outer.limit.has

\* characters of the pasted text beyond those sqlglot writes for it
ExtraLen(predicates, clause) ==
    SumLen([i \in 1..Len(predicates) |-> <<"(">> \o predicates[i] \o <<")">>])
    - SumLen([i \in 1..Len(clause) |-> EmitAtom(clause[i])])

Paste(text, predicates, clause) ==
    Str(IF PasteInOuter(text.q)
        THEN [text.q EXCEPT !.outer.where = clause \o @]
        ELSE [text.q EXCEPT !.inner.where = clause \o @],
        text.pad + ExtraLen(predicates, clause))

\* lines 190-201: "(p1) AND (p2)" goes behind the first word WHERE of the
\* string; without one, in front of the first GROUP BY / ORDER BY / LIMIT,
\* else to the end of the string
InjectString(text, predicates) == Paste(text, predicates, Clause(predicates))

_inject_missing_predicates(text, predicates) ==
    IF predicates = <<>> THEN text
    ELSE IF text.q.shape \in {"select", "sub"} /\ text.q.junk # "nonselect"
         THEN InjectAST(text, predicates)
         ELSE InjectString(text, predicates)

\* lines 125-132: the atoms of the MUST predicates that no condition holds
MissingPredicates(existing_conditions, atoms) ==
    SelectSeq(atoms, LAMBDA a : ~check_predicate_presence(existing_conditions, a))

MustAtoms(must_predicates) ==
    Flatten([i \in 1..Len(must_predicates) |-> decompose_predicate_to_atoms(must_predicates[i])])

\* with nothing missing the string comes back as it is (lines 134-135, 148-149)
minimal_repair(text, p, c) ==
    IF c.must_predicates = <<>> THEN text
    ELSE _inject_missing_predicates(text,
             MissingPredicates(extract_where_conditions(text.q), MustAtoms(c.must_predicates)))

\* no comment is removed first: CJK text inside a comment counts
BasicErrors(q) ==
    (IF SelectStarRegex(q) THEN {"select_star"} ELSE {})
    \cup (IF q.junk \in {"cjk", "cjk_comment"} THEN {"cjk"} ELSE {})
    \cup (IF q.junk = "specific" THEN {"placeholder"} ELSE {})
    \cup (IF ~Parses(q) THEN {"parse"} ELSE {})

check_basic_sql_validity(text) == ASTValidationResult(BasicErrors(text.q))

\* Variant: the second validation looks at the MUST predicates only.
RecheckPredicates(i, candidate, repaired_sql, p, c) ==
    IF "must_predicate" \notin validate_must_constraints(repaired_sql, p, c).errors
    THEN <<<<i, [candidate EXCEPT !.sql = repaired_sql, !.repaired = TRUE]>>>>
    ELSE <<>>

\* lines 288-299: the repaired SQL is validated again
Recheck(i, candidate, repaired_sql, p, c) ==
    IF validate_must_constraints(repaired_sql, p, c).passed
    THEN <<<<i, [candidate EXCEPT !.sql = repaired_sql, !.repaired = TRUE]>>>>
    ELSE <<>>

\* lines 269-302: one candidate of the loop; i counts from 0
FilterOne(i, candidate, p, c) ==
    IF candidate.sql.q.junk = "empty" THEN <<>>
    ELSE IF ~check_basic_sql_validity(candidate.sql).passed THEN <<>>
    ELSE IF validate_must_constraints(candidate.sql, p, c).passed THEN <<<<i, candidate>>>>
    ELSE Recheck(i, candidate, minimal_repair(candidate.sql, p, c), p, c)

\* Variant: the loop ends at the first candidate that is not kept.
RECURSIVE FilterUntilRejected(_, _, _, _)
FilterUntilRejected(k, cands, p, c) ==
    IF k > Len(cands) \/ FilterOne(k - 1, cands[k], p, c) = <<>> THEN <<>>
    ELSE FilterOne(k - 1, cands[k], p, c) \o FilterUntilRejected(k + 1, cands, p, c)
simple_candidate_filter_stopping(cands, p, c) == FilterUntilRejected(1, cands, p, c)

simple_candidate_filter(cands, p, c) ==
    Flatten([k \in 1..Len(cands) |-> FilterOne(k - 1, cands[k], p, c)])

\* Variant: the length before the repaired flag.
selection_key_by_length(item) ==
    <<len(item[2].sql), IF item[2].repaired THEN 1 ELSE 0, item[1]>>

selection_key(item) ==
    <<IF item[2].repaired THEN 1 ELSE 0, len(item[2].sql), item[1]>>

\* the order of Python tuples
TupleLess(a, b) ==
    \/ a[1] < b[1]
    \/ a[1] = b[1] /\ a[2] < b[2]
    \/ a[1] = b[1] /\ a[2] = b[2] /\ a[3] < b[3]

\* <<>>: None
deterministic_selection(cands) ==
    IF cands = <<>> THEN <<>>
    ELSE <<SortSeq(cands, LAMBDA a, b : TupleLess(selection_key(a), selection_key(b)))[1][2]>>

\* lines 391-397, valid_candidates being the result of the filter
SelectBest(valid_candidates) ==
    IF valid_candidates = <<>> THEN <<>>
    ELSE deterministic_selection(valid_candidates)

validate_and_select_best(cands, p, c) == SelectBest(simple_candidate_filter(cands, p, c))

(***************************************************************************)
(* The validation engine's caller                                          *)
(***************************************************************************)
ValidateAndSelect ==
    /\ vpc = "ready"
    /\ valid' = simple_candidate_filter(candidates, plan, contract)
    /\ best' = SelectBest(valid')
    /\ vpc' = "done"
    /\ UNCHANGED <<candidates, plan, contract, ast_error, anonParses>>
    /\ UNCHANGED guardVars
    /\ UNCHANGED plannerVars
    /\ UNCHANGED askVars
    /\ UNCHANGED selectVars

NextValidate == ValidateAndSelect

\* the Guard is not called
IdleGuard ==
    /\ sql = NoQuery
    /\ params = [m_schema |-> {}, max_limit |-> DEFAULT_MAX_LIMIT, keep_order_by |-> FALSE,
                 allowed_columns_by_table |-> {}, permissive_mode |-> FALSE, alias_env |-> {}]
    /\ out = SQLValidationError("none")
    /\ out2 = SQLValidationError("none")
    /\ gpc = "idle"

\* MUST predicates and joins, as a plan spells them
PredXNotNull == <<"t", ".", "x", " ", "IS", " ", "NOT", " ", "NULL">>
PredBoth ==
    <<"x", " ", "IS", " ", " ", "NOT", " ", "NULL", " ", "AND", " ",
      "(", "u", ".", "y", " ", "=", " ", "1", ")">>
PredYOne == <<"y", " ", "=", " ", "1">>
PredGrouped ==
    <<"(", "x", " ", "=", " ", "1", " ", "AND", " ", "y", " ", "=", " ", "1", ")">>
PredTight == <<"y", "=", "1">>
PredXAndY ==
    <<"t", ".", "x", " ", "IS", " ", "NOT", " ", "NULL", " ", "AND", " ", "y", " ", "=", " ", "1">>
JoinTU == <<"T", ".", "id", " ", "=", " ", "u", ".", "id">>

ValidationContracts ==
    { [allowed_tables |-> {IdU("t"), Id("u")},
       allowed_columns |-> {[t |-> Id("t"), cs |-> {Id("x"), Id("y"), Id("id")}],
                            [t |-> Id("u"), cs |-> {Id("y"), Id("id")}]},
       must_tables |-> k[1], must_joins |-> k[2], must_predicates |-> k[3],
       forbidden_clauses |-> {"ORDER BY"}] :
        k \in { <<{}, <<>>, <<>>>>,
                <<{}, <<>>, <<PredXNotNull>>>>,
                <<{Id("t")}, <<>>, <<PredBoth>>>>,
                <<{}, <<>>, <<PredYOne>>>>,
                <<{}, <<>>, <<PredGrouped>>>>,
                <<{}, <<>>, <<PredXNotNull, PredTight>>>>,
                <<{}, <<JoinTU>>, <<PredYOne>>>>,
                <<{}, <<>>, <<PredYOne, PredXAndY>>>> } }

VSel(tables, cols, where, join) ==
    [Sel("no", tables, cols, {}, FALSE, FALSE, FALSE, NoLimit, "none", "none")
        EXCEPT !.where = where, !.join = join]

XNotNull == Atom("notnull", "t", "x", <<>>)
YEq(tbl, val) == Atom("eq", tbl, "y", val)

\* candidates of the generator: the SQL strings, lengths included
MaxPad == 30
CandidateTexts ==
    LET one(s) == Qry("select", s, NoSel, FALSE, NoLimit, "none")
        T == {Id("t")}
        X == {Id("x")}
    IN  { Str(one(VSel(T, X, <<XNotNull>>, <<>>)), 0),
          Str(one(VSel(T, X, <<XNotNull, YEq("", <<"1">>)>>, <<>>)), MaxPad),
          Str(one(VSel(T, X, <<>>, <<>>)), 0),
          Str(one(VSel(T, X, <<YEq("", <<"1", "0">>)>>, <<>>)), 0),
          Str(one(VSel(T, X, <<YEq("", <<"1">>), Atom("eq", "", "id", <<"2">>)>>, <<>>)), 0),
          Str(Qry("sub", VSel({}, X, <<>>, <<>>), VSel(T, X, <<YEq("", <<"1">>)>>, <<>>),
                  FALSE, NoLimit, "none"), 0),
          Str(Qry("union", VSel(T, X, <<>>, <<>>), VSel({Id("u")}, {Id("y")}, <<YEq("u", <<"1">>)>>, <<>>),
                  FALSE, NoLimit, "none"), 0),
          Str(one([VSel(T, {}, <<>>, <<>>) EXCEPT !.star = "first"]), 0),
          Str([NoQuery EXCEPT !.junk = "empty"], 0),
          Str(one(VSel({Id("v")}, X, <<Atom("notnull", "", "x", <<>>)>>, <<>>)), 0),
          Str(one(VSel({Id("t"), Id("u")}, X, <<Atom("notnull", "", "x", <<>>), YEq("u", <<"1">>)>>,
                       <<[lt |-> "t", lc |-> "id", rt |-> "u", rc |-> "id"]>>)), 0) }

MaxCands == 2
CandidateLists ==
    UNION { [1..n -> {[sql |-> t, repaired |-> FALSE] : t \in CandidateTexts}] : n \in 0..MaxCands }

InitValidate ==
    /\ candidates \in CandidateLists
    /\ contract \in ValidationContracts
    /\ plan = [must_tables |-> contract.must_tables]
    /\ ast_error = FALSE
    /\ anonParses \in BOOLEAN
    /\ valid = <<>>
    /\ best = <<>>
    /\ vpc = "ready"
    /\ IdleGuard
    /\ IdlePlanner
    /\ IdleAsk
    /\ IdleSelect

SpecValidate == InitValidate /\ [][NextValidate]_vars

\* validate_and_select_best where the AST checks may raise
InitMust ==
    /\ candidates \in CandidateLists
    /\ contract \in {c \in ValidationContracts :
                        c.must_predicates \in {<<>>, <<PredXNotNull>>, <<PredYOne>>}}
    /\ plan = [must_tables |-> contract.must_tables]
    /\ ast_error \in BOOLEAN
    /\ anonParses = TRUE
    /\ valid = <<>>
    /\ best = <<>>
    /\ vpc = "ready"
    /\ IdleGuard
    /\ IdlePlanner
    /\ IdleAsk
    /\ IdleSelect

SpecMust == InitMust /\ [][NextValidate]_vars

C9_LeastKey ==
    (vpc = "done") =>
        /\ (best = <<>>) <=> (valid = <<>>)
        /\ valid # <<>> =>
             \E i \in 1..Len(valid) :
                /\ best[1] = valid[i][2]
                /\ \A j \in (1..Len(valid)) \ {i} :
                     LET a == valid[i]
                         b == valid[j]
                     IN  \/ ~a[2].repaired /\ b[2].repaired
                         \/ /\ a[2].repaired = b[2].repaired
                            /\ len(a[2].sql) < len(b[2].sql)
                         \/ /\ a[2].repaired = b[2].repaired
                            /\ len(a[2].sql) = len(b[2].sql)
                            /\ a[1] < b[1]

C9_Witness ==
    /\ vpc = "done" /\ Len(valid) >= 2
    /\ ~best[1].repaired
    /\ \E j \in 1..Len(valid) : valid[j][2].repaired /\ len(valid[j][2].sql) < len(best[1].sql)

\* the statement has the contract's MUST tables and MUST joins and uses only
\* tables and columns the contract allows (a check with an empty list is none)
TablesJoinsAllowed(q, c) ==
    /\ \A t \in c.must_tables : \E u \in AllTables(q) : u.name = t.name
    /\ \A j \in 1..Len(c.must_joins) :
          \E k \in 1..Len(extract_join_conditions(q)) :
              IsSubstring(normalize_join_condition(c.must_joins[j]),
                          normalize_join_condition(extract_join_conditions(q)[k]))
    /\ c.allowed_tables # {} =>
          \A u \in AllTables(q) : \E t \in c.allowed_tables : t.name = u.name
    /\ c.allowed_columns # {} =>
          \A x \in AllCols(q) : \E w \in c.allowed_columns : \E y \in w.cs : y.name = x.name

EntriesOf(i) == {k \in 1..Len(valid) : valid[k][1] = i}

\* the candidate reaches the MUST validation: it has SQL and the SQL passes
\* the basic checks
Validated(candidate) ==
    candidate.sql.q.junk # "empty" /\ check_basic_sql_validity(candidate.sql).passed

\* C21: of each candidate the filter's output holds, under the candidate's
\* index, the candidate as it is when its SQL passes the basic checks and the
\* MUST validation; the candidate with the repaired SQL and repaired = true
\* when the SQL fails the MUST validation and the SQL repaired once passes it;
\* nothing otherwise, whatever the other candidates are; the output is in
\* the order of the indexes.
C21_EachCandidateOnItsOwn ==
    (vpc = "done") =>
        /\ \A k \in 1..Len(candidates) :
              LET cand == candidates[k]
                  fixed == minimal_repair(cand.sql, plan, contract)
              IN  IF ~Validated(cand) THEN EntriesOf(k - 1) = {}
                  ELSE IF validate_must_constraints(cand.sql, plan, contract).passed
                  THEN \E e \in 1..Len(valid) : EntriesOf(k - 1) = {e} /\ valid[e][2] = cand
                  ELSE IF validate_must_constraints(fixed, plan, contract).passed
                  THEN \E e \in 1..Len(valid) :
                          /\ EntriesOf(k - 1) = {e}
                          /\ valid[e][2] = [cand EXCEPT !.sql = fixed, !.repaired = TRUE]
                  ELSE EntriesOf(k - 1) = {}
        /\ \A e \in 1..Len(valid) : valid[e][1] \in 0..(Len(candidates) - 1)
        /\ \A e, f \in 1..Len(valid) : e < f => valid[e][1] < valid[f][1]

\* the first candidate is rejected for SELECT *, the second comes out
\* repaired under its index 1
C21_Witness ==
    /\ vpc = "done" /\ Len(candidates) = 2
    /\ "select_star" \in check_basic_sql_validity(candidates[1].sql).errors
    /\ Len(valid) = 1 /\ valid[1][1] = 1 /\ valid[1][2].repaired
    /\ valid[1][2].sql # candidates[2].sql

\* the parentheses open behind the k-th symbol of a text
DepthAt(s, k) ==
    Cardinality({i \in 1..k : s[i] = "("}) - Cardinality({i \in 1..k : s[i] = ")"})

\* the parts of a text between its ANDs outside parentheses
RECURSIVE SplitTopAnd(_, _, _)
SplitTopAnd(s, k, acc) ==
    IF k > Len(s) THEN <<acc>>
    ELSE IF LowerSym(s[k]) = "and" /\ DepthAt(s, k) = 0
         THEN <<acc>> \o SplitTopAnd(s, k + 1, <<>>)
         ELSE SplitTopAnd(s, k + 1, Append(acc, s[k]))

\* the first symbol opens a parenthesis that the last symbol closes
WrapsWhole(s) ==
    /\ Len(s) >= 2 /\ Head(s) = "(" /\ s[Len(s)] = ")"
    /\ \A k \in 1..(Len(s) - 1) : DepthAt(s, k) > 0

\* the conjuncts of a predicate, each without the pair of parentheses that
\* wraps the whole of it
TopLevelAtoms(predicate) ==
    LET parts == SplitTopAnd(predicate, 1, <<>>)
        atoms == [i \in 1..Len(parts) |->
                    IF WrapsWhole(Strip(parts[i]))
                    THEN Strip(SubSeq(Strip(parts[i]), 2, Len(Strip(parts[i])) - 1))
                    ELSE Strip(parts[i])]
    IN  SelectSeq(atoms, LAMBDA x : x # <<>>)

\* C27: decompose_predicate_to_atoms gives the conjuncts of a MUST predicate:
\* it splits at the ANDs outside parentheses only and removes a pair of
\* parentheses only where the pair wraps the whole atom.
C27_SplitsAtTopLevelAnd ==
    (vpc = "done") =>
        \A i \in 1..Len(contract.must_predicates) :
            decompose_predicate_to_atoms(contract.must_predicates[i])
                = TopLevelAtoms(contract.must_predicates[i])

\* the atom is, after normalisation, one of the AND-ed conditions of the
\* WHERE clause of the outer query
Enforced(q, atom) ==
    \E i \in 1..Len(q.outer.where) :
        normalize_predicate(Lower(EmitAtom(q.outer.where[i]))) = normalize_predicate(atom)

\* C29: a statement that passes the check of the MUST predicates has every
\* atom of every MUST predicate as a conjunct of its outer WHERE clause.
C29_PresentMeansEnforced ==
    (vpc = "done") =>
        \A k \in 1..Len(candidates) :
            (/\ Parses(candidates[k].sql.q)
             /\ validate_must_predicates_ast(candidates[k].sql.q, contract.must_predicates)) =>
                \A a \in Range(MustAtoms(contract.must_predicates)) :
                    Enforced(candidates[k].sql.q, a)

\* C24: a candidate passes validate_must_constraints, and so the filter,
\* only when its SQL parses and the checks of the MUST tables, MUST joins,
\* MUST predicates, allowed tables and allowed columns succeed on it, also
\* when an internal error is raised during the AST validation.
C24_FailClosed ==
    (vpc = "done") =>
        \A e \in 1..Len(valid) :
            /\ Parses(valid[e][2].sql.q)
            /\ TablesJoinsAllowed(valid[e][2].sql.q, contract)
            /\ contract.must_predicates # <<>> =>
                  validate_must_predicates_ast(valid[e][2].sql.q, contract.must_predicates)

\* the conditions of all WHERE clauses of a statement
WhereCount(q) == Len(q.outer.where) + (IF q.shape = "select" THEN 0 ELSE Len(q.inner.where))

\* the MUST atoms, normalised, that no WHERE condition of the statement holds
AbsentAtoms(q, c) ==
    { normalize_predicate(a) : a \in
        { b \in Range(MustAtoms(c.must_predicates)) :
            \A k \in 1..Len(extract_where_conditions(q)) :
                ~IsSubstring(normalize_predicate(b),
                             normalize_predicate(extract_where_conditions(q)[k])) } }

\* the candidate is one simple_candidate_filter hands to minimal_repair
RepairCalled(candidate, p, c) ==
    /\ candidate.sql.q.junk # "empty"
    /\ check_basic_sql_validity(candidate.sql).passed
    /\ ~validate_must_constraints(candidate.sql, p, c).passed

\* C20 (as claimed): minimal_repair adds one condition for each MUST atom
\* that is absent from the WHERE conditions, and no other: an atom that
\* occurs in several MUST predicates is added once.
C20_EachAbsentAtomOnce ==
    (vpc = "done") =>
        \A k \in 1..Len(candidates) :
            RepairCalled(candidates[k], plan, contract) =>
                WhereCount(minimal_repair(candidates[k].sql, plan, contract).q)
                    = WhereCount(candidates[k].sql.q)
                      + Cardinality(AbsentAtoms(candidates[k].sql.q, contract))

(***************************************************************************)
(* llm_planner.py: llm_plan                                                *)
(***************************************************************************)
\* _filter_tables: the names that are, letter for letter, in allowed_tables
_filter_tables(items, allowed) == SelectSeq(items, LAMBDA x : x \in allowed)

\* re.findall(r"\b([a-zA-Z_][a-zA-Z0-9_]*)\.", text): a name outside
\* allowed_tables in front of a dot
_has_unknown_table_ref(texts, allowed) ==
    \E i \in 1..Len(texts) :
        \E k \in 1..(Len(texts[i]) - 1) :
            /\ IsIdent(texts[i][k])
            /\ texts[i][k + 1] = "."
            /\ texts[i][k] \notin allowed

\* lines 300-305, 331-332: the plan with its table lists cleaned
CleanPlan(p, allowed) ==
    [p EXCEPT !.must_tables = _filter_tables(@, allowed),
              !.should_tables = _filter_tables(@, allowed)]

\* lines 316-320
need_retry(original, cleaned, allowed) ==
    \/ Len(cleaned.must_tables) < Len(original.must_tables)
    \/ _has_unknown_table_ref(cleaned.must_predicates, allowed)
    \/ _has_unknown_table_ref(cleaned.must_joins, allowed)

\* Variant: the retry's plan is checked like the first one.
AfterRetryChecked(p, allowed) ==
    IF \/ _has_unknown_table_ref(p.must_predicates, allowed)
       \/ _has_unknown_table_ref(p.must_joins, allowed)
    THEN "chat2" ELSE "done"

\* lines 328-343: behind the retry's reply nothing is checked, the function
\* goes on to its return
AfterRetry(p, allowed) == "done"

\* lines 274-278: the table names of schema_clip; semantic_tables when the
\* clip is not valid JSON
AllowedOfClip(clip, semantic) == IF clip.ok THEN clip.tables ELSE semantic

\* lines 274-285: allowed_tables, then the first request
PlanRequest ==
    /\ lpc = "start"
    /\ planner_tables' = AllowedOfClip(schema_clip, semantic_tables)
    /\ requests' = requests + 1
    /\ lpc' = "chat1"
    /\ UNCHANGED <<schema_clip, semantic_tables, planner_replies>>
    /\ UNCHANGED <<raw_response, raw_response_retry, lplan>>
    /\ UNCHANGED <<guardVars, validationVars>>
    /\ UNCHANGED askVars
    /\ UNCHANGED selectVars

\* the replies the Planner LLM can give
PredUnknown == <<"v", ".", "x", " ", "IS", " ", "NOT", " ", "NULL">>
PlannerPlans ==
    { [task |-> "list", must_tables |-> mt, must_joins |-> mj, must_predicates |-> mp,
       should_tables |-> st] :
        mt \in {<<>>, <<"t">>, <<"t", "v">>},
        mp \in {<<>>, <<PredXNotNull>>, <<PredUnknown>>},
        mj \in {<<>>, <<JoinTU>>},
        st \in {<<>>, <<"u">>, <<"w">>} }
Responses ==
    {Response(k, PlanV1) : k \in {"error", "nojson", "badjson", "badplan"}}
    \cup {Response("plan", p) : p \in PlannerPlans}

\* lines 285-327: the first reply is read; a plan is cleaned and, when it
\* lost a MUST table or names an unknown table, the retry is requested
PlanFirstReply ==
    /\ lpc = "chat1"
    /\ \E r \in planner_replies :
        /\ raw_response' = r
        /\ IF r.kind # "plan"
           THEN /\ lplan' = PlanV1
                /\ lpc' = "done"
                /\ requests' = requests
           ELSE /\ lplan' = CleanPlan(r.plan, planner_tables)
                /\ IF need_retry(r.plan, CleanPlan(r.plan, planner_tables), planner_tables)
                   THEN lpc' = "chat2" /\ requests' = requests + 1
                   ELSE lpc' = "done" /\ requests' = requests
    /\ UNCHANGED <<schema_clip, semantic_tables, planner_replies, planner_tables>>
    /\ UNCHANGED raw_response_retry
    /\ UNCHANGED <<guardVars, validationVars>>
    /\ UNCHANGED askVars
    /\ UNCHANGED selectVars

\* lines 327-351: the retry's reply is read; a plan replaces the first one,
\* a reply without JSON leaves it, an exception gives the default plan
PlanRetryReply ==
    /\ lpc = "chat2"
    /\ \E r \in planner_replies :
        /\ raw_response_retry' = r
        /\ lplan' = IF r.kind = "plan" THEN CleanPlan(r.plan, planner_tables)
                    ELSE IF r.kind = "nojson" THEN lplan
                    ELSE PlanV1
        /\ lpc' = IF r.kind \in {"plan", "nojson"}
                  THEN AfterRetry(CleanPlan(r.plan, planner_tables), planner_tables)
                  ELSE "done"
        /\ requests' = IF lpc' = "chat2" THEN requests + 1 ELSE requests
    /\ UNCHANGED <<schema_clip, semantic_tables, planner_replies, planner_tables>>
    /\ UNCHANGED raw_response
    /\ UNCHANGED <<guardVars, validationVars>>
    /\ UNCHANGED askVars
    /\ UNCHANGED selectVars

NextPlan == PlanRequest \/ PlanFirstReply \/ PlanRetryReply

\* the clip and the recalled tables: a clip that parses; one cut off in the
\* middle (do_ask cuts it at 3000 characters), with a recalled table w that
\* the schema does not have
PlannerInputs ==
    { <<SchemaClip(TRUE, {"t", "u"}), {"t", "u"}>>,
      <<SchemaClip(TRUE, {"t", "T", "u"}), {"t", "u"}>>,
      <<SchemaClip(TRUE, {"t", "v"}), {"t"}>>,
      <<SchemaClip(FALSE, {"t", "u"}), {"t", "u", "w"}>> }

InitPlan ==
    /\ \E i \in PlannerInputs : schema_clip = i[1] /\ semantic_tables = i[2]
    /\ planner_replies = Responses
    /\ planner_tables = {}
    /\ raw_response = NoResponse
    /\ raw_response_retry = NoResponse
    /\ lplan = PlanV1
    /\ requests = 0
    /\ lpc = "start"
    /\ IdleGuard
    /\ IdleValidation
    /\ IdleAsk
    /\ IdleSelect

SpecPlan == InitPlan /\ [][NextPlan]_vars

\* C10: llm_plan sends at most two requests to the Planner LLM, and once the
\* retry's reply is there it sends none and returns.
C10_AtMostTwoRequests ==
    /\ [](requests <= 2)
    /\ [][lpc = "chat2" => (lpc' = "done" /\ requests' = requests)]_vars

C10_Witness ==
    /\ lpc = "done" /\ requests = 2
    /\ raw_response_retry.kind = "plan"
    /\ need_retry(raw_response_retry.plan, lplan, planner_tables)

\* the tables a plan refers to: the entries of its table lists and the names
\* in front of a dot in its predicates and joins
PrefixesOf(texts) ==
    UNION { {texts[i][k] : k \in {m \in 1..(Len(texts[i]) - 1) :
                                     IsIdent(texts[i][m]) /\ texts[i][m + 1] = "."}} :
            i \in 1..Len(texts) }
ReferencedTables(p) ==
    Range(p.must_tables) \cup Range(p.should_tables)
    \cup PrefixesOf(p.must_predicates) \cup PrefixesOf(p.must_joins)

\* C17 (as claimed): the tables of the returned plan's must_tables and
\* should_tables are table names of the schema clip given to llm_plan.
C17_PlanTablesInClip ==
    (lpc = "done") =>
        /\ Range(lplan.must_tables) \subseteq schema_clip.tables
        /\ Range(lplan.should_tables) \subseteq schema_clip.tables

\* C11: when the first reply is a plan, the retry is requested exactly when
\* the plan refers to a table outside allowed_tables, in one of its table
\* lists or in front of a dot in one of its predicates or joins.
C11_RetryIffUnknownTable ==
    [][(lpc = "chat1" /\ raw_response'.kind = "plan") =>
         ((lpc' = "chat2" /\ requests' = requests + 1)
            <=> ~(ReferencedTables(raw_response'.plan) \subseteq planner_tables))]_vars

(***************************************************************************)
(* run_nl2sql_clean.py: do_ask and do_ask_traditional                      *)
(***************************************************************************)
\* the schema file: t(x, y, id), u(y, id)
AskSchema ==
    { [name |-> Id("t"), columns |-> {Id("x"), Id("y"), Id("id")}],
      [name |-> Id("u"), columns |-> {Id("y"), Id("id")}] }

\* semantic_colmap_raw: the recalled columns of each recalled table
SemanticColmap ==
    { [t |-> Id("t"), cs |-> {Id("x"), Id("id")}],
      [t |-> Id("u"), cs |-> {Id("y"), Id("id")}] }

\* a table name of a plan as an identifier
ToId(n) == IF n = "T" THEN IdU("t") ELSE IF n = "U" THEN IdU("u") ELSE Id(n)
ToIds(names) == {ToId(names[i]) : i \in 1..Len(names)}

filter_m_schema(m_schema, table_names) == {t \in m_schema : Written(t.name) \in table_names}

\* lines 515-532: the recalled tables, the plan's required tables and the
\* table prefixes of its MUST predicates and joins, as far as the schema
\* file has them
table_names_for_kb(p, m_schema, semantic) ==
    semantic
    \cup ((Range(p.must_tables) \cup PrefixesOf(p.must_predicates) \cup PrefixesOf(p.must_joins))
          \cap {Written(t.name) : t \in m_schema})

\* line 537
effective_schema(p, m_schema, semantic) ==
    filter_m_schema(m_schema, table_names_for_kb(p, m_schema, semantic))

\* re.findall(r"\b(ident)\.(ident)\b", s): the columns written with table tbl
ColumnsOf(texts, tbl) ==
    UNION { {Id(texts[i][k + 2]) :
                k \in {m \in 1..(Len(texts[i]) - 2) :
                          /\ texts[i][m] = tbl /\ texts[i][m + 1] = "."
                          /\ IsIdent(texts[i][m + 2])}} :
            i \in 1..Len(texts) }

\* lines 573-590: the columns of the plan's predicates and joins join the
\* selection of their table, when the selection has the table
_ensure_contract_columns(p, selected_map) ==
    { [t |-> e.t, cs |-> e.cs \cup ColumnsOf(p.must_predicates \o p.must_joins, Written(e.t))] :
        e \in selected_map }

\* src/llm_generator.py, lines 135-147: an empty list counts as none given
make_safety_contract(allowed_tables, allowed_cols, must_tables, required_joins, required_predicates, forbidden_clauses) ==
    [allowed_tables |-> allowed_tables, allowed_columns |-> allowed_cols,
     must_tables |-> must_tables, must_joins |-> required_joins,
     must_predicates |-> required_predicates,
     forbidden_clauses |-> IF forbidden_clauses # {} THEN forbidden_clauses ELSE {"ORDER BY"}]

\* lines 602-615
BuildContract(p, m_schema, semantic) ==
    make_safety_contract({t.name : t \in effective_schema(p, m_schema, semantic)},
                         _ensure_contract_columns(p, SemanticColmap),
                         ToIds(p.must_tables), p.must_joins, p.must_predicates,
                         IF p.task = "trend" THEN {} ELSE {"ORDER BY"})

\* lines 667-674: the arguments of the Guard for the selected SQL
GuardArgs(p, m_schema, semantic) ==
    [m_schema |-> effective_schema(p, m_schema, semantic), max_limit |-> DEFAULT_MAX_LIMIT,
     keep_order_by |-> (p.task = "trend"),
     allowed_columns_by_table |-> _ensure_contract_columns(p, SemanticColmap),
     permissive_mode |-> FALSE, alias_env |-> {}]

\* lines 765-769: the arguments of the Guard in do_ask_traditional
TraditionalArgs(m_schema) ==
    [m_schema |-> m_schema, max_limit |-> DEFAULT_MAX_LIMIT, keep_order_by |-> FALSE,
     allowed_columns_by_table |-> {}, permissive_mode |-> FALSE, alias_env |-> {}]

\* src/llm_generator.py, lines 286-326: a failed request, a reply without
\* JSON and a reply with broken JSON all give the empty list
llm_generate_sql(g) == IF g.kind = "list" THEN g.cands ELSE <<>>

\* Variant: the candidates are handed on whatever they are.
AfterGenerateUnchecked(cands) == "select"

\* lines 638-646: no candidates, the traditional path
AfterGenerate(cands) == IF cands = <<>> THEN "traditional" ELSE "select"

\* lines 680-686.  The loop of lines 689-708 adds nothing: its candidates are
\* SQLCandidate objects, candidate.get raises and the bare except passes.
two_call_results(final_sql, is_repaired) ==
    <<[sql |-> final_sql, method |-> "two_call_clean", repaired |-> is_repaired]>>

\* Variant: the generated SQL is recorded as it came.
traditional_results_raw(sql_text, guard_result) ==
    <<[sql |-> sql_text, method |-> "traditional", repaired |-> FALSE]>>

\* lines 762-782: the record of the one generated SQL, when the Guard took it
traditional_results(sql_text, guard_result) ==
    IF guard_result.ok
    THEN <<[sql |-> guard_result.sql, method |-> "traditional", repaired |-> FALSE]>>
    ELSE <<>>

\* lines 511-615: the plan is applied, the contract built
AskContract ==
    /\ apc = "plan" /\ lpc = "done"
    /\ plan' = [must_tables |-> ToIds(lplan.must_tables)]
    /\ contract' = BuildContract(lplan, AskSchema, semantic_tables)
    /\ params' = GuardArgs(lplan, AskSchema, semantic_tables)
    /\ apc' = "generate"
    /\ UNCHANGED <<sql, out, out2, gpc>>
    /\ UNCHANGED <<candidates, ast_error, anonParses, valid, best, vpc>>
    /\ UNCHANGED plannerVars
    /\ UNCHANGED <<gen_response, sql_result, results, traditional_calls, guarded>>
    /\ UNCHANGED selectVars

\* the replies of the Generator LLM
AskTexts ==
    LET one(s, j) == Qry("select", s, NoSel, FALSE, NoLimit, j)
    IN  { Str(one(VSel({Id("t")}, {Id("x")}, <<XNotNull>>, <<>>), "none"), 0),
          Str(one([VSel({Id("t")}, {Id("x")}, <<>>, <<>>) EXCEPT !.order = TRUE], "none"), 0),
          Str(one(VSel({Id("v")}, {Id("x")}, <<XNotNull>>, <<>>), "none"), 0),
          Str(one(VSel({Id("t")}, {Id("x")}, <<XNotNull>>, <<>>), "nonselect"), 0) }
GeneratorReplies ==
    { [kind |-> k, cands |-> <<>>] : k \in {"error", "nojson", "badjson", "list"} }
    \cup { [kind |-> "list", cands |-> c] :
             c \in UNION { [1..n -> {[sql |-> t, repaired |-> FALSE] : t \in AskTexts}] :
                           n \in 1..MaxCands } }

\* lines 620-646: the Generator is asked
AskGenerate ==
    /\ apc = "generate"
    /\ \E g \in GeneratorReplies :
        /\ gen_response' = g.kind
        /\ candidates' = llm_generate_sql(g)
        /\ apc' = AfterGenerate(llm_generate_sql(g))
    /\ traditional_calls' = IF apc' = "traditional" THEN traditional_calls + 1 ELSE traditional_calls
    /\ vpc' = IF apc' = "select" THEN "ready" ELSE vpc
    /\ UNCHANGED guardVars
    /\ UNCHANGED <<plan, contract, ast_error, anonParses, valid, best>>
    /\ UNCHANGED plannerVars
    /\ UNCHANGED <<sql_result, results, guarded>>
    /\ UNCHANGED selectVars

\* lines 654-721: nothing selected, the traditional path; else the Guard,
\* and the record of what it returns or, when it raises, the traditional path
AskGuard ==
    /\ apc = "select" /\ vpc = "done"
    /\ IF best = <<>>
       THEN /\ apc' = "traditional"
            /\ traditional_calls' = traditional_calls + 1
            /\ UNCHANGED <<sql, out, results, guarded>>
       ELSE /\ sql' = best[1].sql.q
            /\ out' = validate_and_rewrite(best[1].sql.q, params)
            /\ IF out'.ok
               THEN /\ results' = two_call_results(out'.sql, best[1].repaired)
                    /\ guarded' = guarded \cup {out'.sql}
                    /\ apc' = "done"
                    /\ traditional_calls' = traditional_calls
               ELSE /\ apc' = "traditional"
                    /\ traditional_calls' = traditional_calls + 1
                    /\ UNCHANGED <<results, guarded>>
    /\ UNCHANGED <<params, out2, gpc>>
    /\ UNCHANGED validationVars
    /\ UNCHANGED plannerVars
    /\ UNCHANGED <<gen_response, sql_result>>
    /\ UNCHANGED selectVars

\* what call_xiyan and the table recall give in do_ask_traditional
XiyanResults ==
    { [kind |-> k, sql |-> NoQuery] : k \in {"notables", "error", "empty"} }
    \cup { [kind |-> "sql", sql |-> t.q] : t \in AskTexts }

\* lines 724-786: do_ask_traditional, whose result do_ask returns
AskTraditional ==
    /\ apc = "traditional"
    /\ \E x \in XiyanResults :
        /\ sql_result' = x.kind
        /\ IF x.kind = "sql"
           THEN /\ sql' = x.sql
                /\ params' = TraditionalArgs(AskSchema)
                /\ out' = validate_and_rewrite(x.sql, TraditionalArgs(AskSchema))
                /\ results' = traditional_results(x.sql, out')
                /\ guarded' = IF out'.ok THEN guarded \cup {out'.sql} ELSE guarded
           ELSE /\ results' = <<>>
                /\ UNCHANGED <<sql, params, out, guarded>>
    /\ apc' = "done"
    /\ UNCHANGED <<out2, gpc>>
    /\ UNCHANGED validationVars
    /\ UNCHANGED plannerVars
    /\ UNCHANGED <<gen_response, traditional_calls>>
    /\ UNCHANGED selectVars

NextAsk ==
    \/ PlanRequest \/ PlanFirstReply \/ PlanRetryReply
    \/ AskContract \/ AskGenerate \/ ValidateAndSelect \/ AskGuard \/ AskTraditional

\* the replies of the Planner LLM in a request
AskPlans ==
    { [PlanV1 EXCEPT !.task = "trend"],
      [PlanV1 EXCEPT !.must_tables = <<"t">>, !.must_predicates = <<PredXNotNull>>],
      [PlanV1 EXCEPT !.must_tables = <<"t", "v">>],
      [PlanV1 EXCEPT !.must_predicates = <<PredUnknown>>] }
AskReplies ==
    {Response(k, PlanV1) : k \in {"error", "nojson", "badplan"}}
    \cup {Response("plan", p) : p \in AskPlans}

InitAsk ==
    /\ apc = "plan"
    /\ gen_response = "none"
    /\ sql_result = "none"
    /\ results = <<>>
    /\ traditional_calls = 0
    /\ guarded = {}
    /\ schema_clip = SchemaClip(TRUE, {"t", "u"})
    /\ semantic_tables = {"t", "u"}
    /\ planner_replies = AskReplies
    /\ planner_tables = {}
    /\ raw_response = NoResponse
    /\ raw_response_retry = NoResponse
    /\ lplan = PlanV1
    /\ requests = 0
    /\ lpc = "start"
    /\ candidates = <<>>
    /\ plan = [must_tables |-> {}]
    /\ contract = BuildContract(PlanV1, {}, {})
    /\ ast_error = FALSE
    /\ anonParses \in BOOLEAN
    /\ valid = <<>>
    /\ best = <<>>
    /\ vpc = "idle"
    /\ IdleGuard
    /\ IdleSelect

SpecAsk == InitAsk /\ [][NextAsk]_vars

\* validate_and_select_best, once called, returns
SelectReturns == vpc = "ready" /\ vpc' = "done"

\* the steps of do_ask other than the call of validate_and_select_best
AskSteps ==
    \/ PlanRequest \/ PlanFirstReply \/ PlanRetryReply
    \/ AskContract \/ AskGenerate \/ AskGuard \/ AskTraditional

\* the scheduling of do_ask: straight-line code in one thread, a step that
\* can be taken is taken
SpecAskFair == SpecAsk /\ WF_vars(AskSteps) /\ WF_vpc(SelectReturns)

(***************************************************************************)
(* Properties of do_ask                                                    *)
(***************************************************************************)
OnlyTraditional == \A i \in 1..Len(results) : results[i].method = "traditional"
FallsBack == apc' = "traditional" /\ traditional_calls' = traditional_calls + 1

\* C12: without candidates from the Generator, without a candidate that
\* passes validation, and when the Guard refuses the selected SQL, do_ask
\* calls do_ask_traditional, once in a request, and returns its result; no
\* two_call_clean record is written then; do_ask_traditional goes to the end
\* without another Planner, Generator or validation step; every request ends.
C12_FallbackOnce ==
    /\ [](traditional_calls <= 1)
    /\ [](traditional_calls = 1 => OnlyTraditional)
    /\ [][(apc = "generate" /\ candidates' = <<>>) => FallsBack]_vars
    /\ [][(apc = "select" /\ vpc = "done" /\ best = <<>>) => FallsBack]_vars
    /\ [][(apc = "select" /\ vpc = "done" /\ best # <<>> /\ ~out'.ok) => FallsBack]_vars
    /\ [][apc = "traditional"
            => /\ apc' = "done"
               /\ UNCHANGED <<traditional_calls, requests, lpc, vpc, candidates, gen_response>>]_vars
    /\ [][apc # "done"]_vars
    /\ <>(apc = "done")

\* every candidate was rejected and the traditional result is returned
C12_Witness ==
    /\ apc = "done" /\ traditional_calls = 1
    /\ gen_response = "list" /\ vpc = "done" /\ best = <<>>
    /\ results # <<>>

\* C13: every SQL in the results of a request was returned by a successful
\* validate_and_rewrite call of that request.
C13_EmittedSqlGuarded == \A i \in 1..Len(results) : results[i].sql \in guarded

\* a traditional record holds the Guard's rewriting, not the generated SQL
C13_Witness ==
    /\ apc = "done" /\ results # <<>>
    /\ results[1].method = "traditional"
    /\ out.ok /\ results[1].sql = out.sql /\ results[1].sql # sql

\* C14: after a failed HTTP request to the Planner no plan is returned, and
\* after a failed HTTP request to the Generator the traditional path is not
\* taken.
C14_HttpFailureAborts ==
    /\ (raw_response.kind = "error" \/ raw_response_retry.kind = "error") => lpc # "done"
    /\ gen_response = "error" => traditional_calls = 0

\* C15: with the default plan returned for a reply without JSON or with a
\* plan off the schema, the request gives no two_call_clean record.
C15_DefaultPlanFallsBack ==
    (lpc = "done" /\ raw_response.kind \in {"nojson", "badplan"} /\ lplan = PlanV1)
        => OnlyTraditional

\* C18: the contract of do_ask forbids ORDER BY exactly for a task other
\* than trend, and the Guard keeps ORDER BY exactly when the contract does
\* not forbid it.
C18_OrderByForbiddenUnlessTrend ==
    (apc \in {"generate", "select"})
        => /\ ("ORDER BY" \in contract.forbidden_clauses) <=> (lplan.task # "trend")
           /\ params.keep_order_by <=> ("ORDER BY" \notin contract.forbidden_clauses)

\* the table.column references of a text: the names on both sides of a dot
QualifiedColumns(texts) ==
    UNION { {<<texts[i][k], texts[i][k + 2]>> :
                k \in {m \in 1..(Len(texts[i]) - 2) :
                          /\ IsIdent(texts[i][m]) /\ texts[i][m + 1] = "."
                          /\ IsIdent(texts[i][m + 2])}} :
            i \in 1..Len(texts) }

\* C22: the contract do_ask builds has, for every table.column written in a
\* MUST predicate or MUST join of the plan, the column among the allowed
\* columns of the table.
C22_MustColumnsAllowed ==
    (apc \in {"generate", "select"}) =>
        \A r \in QualifiedColumns(lplan.must_predicates \o lplan.must_joins) :
            \E e \in contract.allowed_columns : Written(e.t) = r[1] /\ Id(r[2]) \in e.cs

\* the requests sent to an LLM in the request: those of the Planner
\* (_chat_once), that of the Generator, and that of call_xiyan in
\* do_ask_traditional, which is made once tables are found
LLMRequests ==
    requests
    + (IF gen_response # "none" THEN 1 ELSE 0)
    + (IF sql_result \in {"error", "empty", "sql"} THEN 1 ELSE 0)

\* C25: a request of do_ask sends at most three requests to an LLM.
C25_AtMostThreeLLMRequests == LLMRequests <= 3

\* the SQL is what the Guard of do_ask returns for a candidate that passed
\* the filter, that is, the MUST validation against the contract
FromValidatedCandidate(final_sql) ==
    \E e \in 1..Len(valid) :
        /\ validate_must_constraints(valid[e][2].sql, plan, contract).passed
        /\ validate_and_rewrite(valid[e][2].sql.q, GuardArgs(lplan, AskSchema, semantic_tables))
              = Accepted(final_sql)

\* C28: every SQL in the records do_ask returns comes from a candidate that
\* passed the MUST validation against the Safety Contract.
C28_RecordedSqlPassedMust ==
    \A i \in 1..Len(results) : FromValidatedCandidate(results[i].sql)

(***************************************************************************)
(* run_nl2sql_clean.auto_select_tables                                     *)
(***************************************************************************)
MaxTables == 15

Max(a, b) == IF a > b THEN a ELSE b

\* x put behind every entry whose score is not lower than its own
RECURSIVE InsertDesc(_, _)
InsertDesc(x, sorted) ==
    IF sorted = <<>> THEN <<x>>
    ELSE IF Head(sorted).score >= x.score
         THEN <<Head(sorted)>> \o InsertDesc(x, Tail(sorted))
         ELSE <<x>> \o sorted

\* scored.sort(key=lambda x: x[1], reverse=True): descending by score, tables
\* of one score in the order of the schema
RECURSIVE SortDesc(_)
SortDesc(scored) ==
    IF scored = <<>> THEN <<>>
    ELSE InsertDesc(scored[Len(scored)], SortDesc(SubSeq(scored, 1, Len(scored) - 1)))

\* lines 211-225: the number of tables to keep, from the sorted list
dynamic_topk(scored, k) ==
    LET max_score == IF scored # <<>> THEN scored[1].score ELSE 0
        high_score_count == Cardinality({i \in 1..Len(scored) : scored[i].score >= 5})
    IN  IF high_score_count >= 2 THEN Min(k + 2, Len(scored))
        ELSE IF max_score >= 10 THEN Min(k + 4, Len(scored))
        ELSE k

\* scored[:k]
Slice(scored, k) == SubSeq(scored, 1, Min(k, Len(scored)))

\* lines 227-230: the names chosen (filter_m_schema keeps their tables) and
\* the scored entries kept
Chosen(top) == [filtered |-> {top[i].name : i \in 1..Len(top)}, scored |-> top]

TopOf(scored, k) == Chosen(Slice(scored, Max(1, dynamic_topk(scored, k))))

\* m_tables: the tables of the schema in its order, each with the score
\* score_table_simple gives it for the question's tokens
auto_select_tables(m_tables, k) == TopOf(SortDesc(m_tables), k)

AutoSelect ==
    /\ spc = "ready"
    /\ sel_result' = auto_select_tables(sel_tables, sel_topk)
    /\ spc' = "done"
    /\ UNCHANGED <<sel_tables, sel_topk>>
    /\ UNCHANGED guardVars
    /\ UNCHANGED validationVars
    /\ UNCHANGED plannerVars
    /\ UNCHANGED askVars

NextSelect == AutoSelect

\* the score of table i of n: the last h tables score 10 and more (a table
\* name hit), the m before them 5, of the others every third one 3
ScoreAt(i, n, h, m) ==
    IF i > n - h THEN (IF i = n THEN 15 ELSE 10)
    ELSE IF i > n - h - m THEN 5
    ELSE IF i % 3 = 0 THEN 3 ELSE 0

SelectSchemas ==
    { [i \in 1..n |-> [name |-> i, score |-> ScoreAt(i, n, h, m)]] :
        n \in 0..MaxTables, h \in 0..2, m \in 0..2 }

InitSelect ==
    /\ sel_tables \in SelectSchemas
    /\ sel_topk \in {8, 6}
    /\ sel_result = [filtered |-> {}, scored |-> <<>>]
    /\ spc = "ready"
    /\ IdleGuard
    /\ IdleValidation
    /\ IdlePlanner
    /\ IdleAsk

SpecSelect == InitSelect /\ [][NextSelect]_vars

\* the K of the claim for the call with topk = 8
ClaimedK(m_tables) ==
    8 + (IF \E i \in 1..Len(m_tables) : m_tables[i].score >= 10 THEN 4 ELSE 0)
      + (IF Cardinality({i \in 1..Len(m_tables) : m_tables[i].score >= 5}) >= 2 THEN 2 ELSE 0)

\* the entries are in descending order of score and no table left out
\* scores higher than one that is kept
Ranked(scored, m_tables) ==
    /\ \A i \in 1..Len(scored) : \E j \in 1..Len(m_tables) : m_tables[j] = scored[i]
    /\ \A i, j \in 1..Len(scored) : i < j => scored[i].score >= scored[j].score
    /\ \A i, j \in 1..Len(scored) : i # j => scored[i].name # scored[j].name
    /\ \A j \in 1..Len(m_tables) :
           (\A i \in 1..Len(scored) : scored[i].name # m_tables[j].name)
              => \A i \in 1..Len(scored) : scored[i].score >= m_tables[j].score

\* C23: called with topk = 8, auto_select_tables returns the tables ranked by
\* descending score and cut to K tables, K = 8, plus 4 when the highest score
\* is 10 or more, plus 2 on top when two tables or more score 5 or more (14
\* with both), at most the number of tables; nothing for an empty schema.
C23_DynamicTopK ==
    (spc = "done" /\ sel_topk = 8) =>
        /\ Len(sel_result.scored) = Min(ClaimedK(sel_tables), Len(sel_tables))
        /\ Ranked(sel_result.scored, sel_tables)

====
